---------------------------- MODULE Spec2Model ----------------------------
(***************************************************************************)
(* A model of the ts-route resolution / construction engine.               *)
(*                                                                         *)
(* Strings are sequences of one-character strings (<<"a", "/", "b">> is    *)
(* 'a/b'), so that slicing, splitting, percent-encoding and regular-        *)
(* expression matching are computed character by character as the code     *)
(* computes them.  A JavaScript exception is a result record whose field   *)
(* `threw` is TRUE.  Every engine operation is a pure function of its      *)
(* arguments: a specification draws one call in Init and its action        *)
(* applies the operation to it.                                            *)
(***************************************************************************)
EXTENDS Integers, Sequences, FiniteSets, TLC

VARIABLES call, pc, result

vars == <<call, pc, result>>

(***************************************************************************)
(* Bounds of the model.                                                    *)
(***************************************************************************)
\* The most pieces a generated pattern is made of.
MaxPatternParts == 3

\* The most pieces a generated URL is made of.
MaxUrlParts == 3

\* The most values a key of a raw mapping holds.
MaxRawValues == 3

\* The longest input of encodeReservedChars, in characters.
MaxInputLen == 2

\* The most pieces the string returned by a custom encoder is made of.
MaxEncoderParts == 2

\* The most elements of an array-valued query entry.
MaxElements == 3

\* The most pieces the string returned by a custom serializer is made of.
MaxSerializerParts == 3

\* The most pieces a generated fragment is made of.
MaxFragmentParts == 3

\* The length of the longest chain of parents in a generated table.
MaxChain == 12

(***************************************************************************)
(* Characters.                                                             *)
(***************************************************************************)
\* Printable ASCII, 0x20 .. 0x7E: AsciiTable[i] has code i + 31.  The grave
\* accent (0x60) cannot be written in a string literal and is named.
AsciiTable ==
  << " ", "!", "\"", "#", "$", "%", "&", "'", "(", ")", "*", "+", ",", "-", ".", "/",
     "0", "1", "2", "3", "4", "5", "6", "7", "8", "9", ":", ";", "<", "=", ">", "?",
     "@", "A", "B", "C", "D", "E", "F", "G", "H", "I", "J", "K", "L", "M", "N", "O",
     "P", "Q", "R", "S", "T", "U", "V", "W", "X", "Y", "Z", "[", "\\", "]", "^", "_",
     "GRAVE", "a", "b", "c", "d", "e", "f", "g", "h", "i", "j", "k", "l", "m", "n", "o",
     "p", "q", "r", "s", "t", "u", "v", "w", "x", "y", "z", "{", "|", "}", "~" >>

HexUpper == << "0", "1", "2", "3", "4", "5", "6", "7", "8", "9", "A", "B", "C", "D", "E", "F" >>

HexLower == << "0", "1", "2", "3", "4", "5", "6", "7", "8", "9", "a", "b", "c", "d", "e", "f" >>

Digits == {"0", "1", "2", "3", "4", "5", "6", "7", "8", "9"}

UpperAlpha == {AsciiTable[i] : i \in 34..59}

LowerAlpha == {AsciiTable[i] : i \in 66..91}

Alpha == UpperAlpha \cup LowerAlpha

HexChars == Digits \cup {"A", "B", "C", "D", "E", "F", "a", "b", "c", "d", "e", "f"}

\* The characters the regular-expression class \s and String.prototype.trim
\* treat as white space, within the model's alphabet.
WhiteSpace == {" ", "\t", "\n"}

\* charCodeAt: the code of a character of the alphabet.
CodeOf(c) ==
  IF c = "\t" THEN 9
  ELSE IF c = "\n" THEN 10
  ELSE 31 + (CHOOSE i \in 1..Len(AsciiTable) : AsciiTable[i] = c)

\* String.fromCharCode, for the codes of the alphabet.
ChrOf(n) ==
  IF n = 9 THEN "\t"
  ELSE IF n = 10 THEN "\n"
  ELSE AsciiTable[n - 31]

HexVal(c) == (CHOOSE i \in 1..16 : HexUpper[i] = c \/ HexLower[i] = c) - 1

\* '%XX' of a character, upper-case hexadecimal digits (encodeURIComponent).
PercentOf(c) == << "%", HexUpper[(CodeOf(c) \div 16) + 1], HexUpper[(CodeOf(c) % 16) + 1] >>

(***************************************************************************)
(* Strings.                                                                *)
(***************************************************************************)
RECURSIVE Flatten(_)
\* The concatenation of a sequence of strings.
Flatten(ss) == IF ss = <<>> THEN <<>> ELSE Head(ss) \o Flatten(Tail(ss))

RECURSIVE Join(_, _)
\* Array.prototype.join.
Join(ss, sep) ==
  IF ss = <<>> THEN <<>>
  ELSE IF Len(ss) = 1 THEN ss[1]
  ELSE ss[1] \o sep \o Join(Tail(ss), sep)

\* String.prototype.slice(from) with a 0-based index.
SliceFrom(s, from) == SubSeq(s, from + 1, Len(s))

\* String.prototype.startsWith, at 0-based position pos.
StartsWithAt(s, t, pos) ==
  /\ pos + Len(t) <= Len(s)
  /\ SubSeq(s, pos + 1, pos + Len(t)) = t

StartsWith(s, t) == StartsWithAt(s, t, 0)

EndsWith(s, t) == Len(t) <= Len(s) /\ SubSeq(s, Len(s) - Len(t) + 1, Len(s)) = t

\* String.prototype.includes.
Includes(s, t) == \E pos \in 0..Len(s) : StartsWithAt(s, t, pos)

RECURSIVE TrimStart(_)
TrimStart(s) ==
  IF s # <<>> /\ Head(s) \in WhiteSpace THEN TrimStart(Tail(s)) ELSE s

RECURSIVE TrimEnd(_)
TrimEnd(s) ==
  IF s # <<>> /\ s[Len(s)] \in WhiteSpace THEN TrimEnd(SubSeq(s, 1, Len(s) - 1)) ELSE s

\* String.prototype.trim.
Trim(s) == TrimEnd(TrimStart(s))

RECURSIVE SplitOn(_, _, _)
\* String.prototype.split(token) for a non-empty token; cur is the piece
\* being collected.
SplitOn(s, token, cur) ==
  IF s = <<>> THEN << cur >>
  ELSE IF StartsWith(s, token)
    THEN << cur >> \o SplitOn(SliceFrom(s, Len(token)), token, <<>>)
    ELSE SplitOn(Tail(s), token, Append(cur, Head(s)))

Split(s, token) == SplitOn(s, token, <<>>)

RECURSIVE ToLowerCase(_)
ToLowerCase(s) ==
  IF s = <<>> THEN <<>>
  ELSE << IF Head(s) \in UpperAlpha THEN ChrOf(CodeOf(Head(s)) + 32) ELSE Head(s) >>
       \o ToLowerCase(Tail(s))

RECURSIVE StrLess(_, _)
\* The < of two strings: by code units, a proper prefix first.
StrLess(a, b) ==
  IF b = <<>> THEN FALSE
  ELSE IF a = <<>> THEN TRUE
  ELSE IF Head(a) = Head(b) THEN StrLess(Tail(a), Tail(b))
  ELSE CodeOf(Head(a)) < CodeOf(Head(b))

RECURSIVE Dedupe(_, _)
\* Array.from(new Set(xs)): the distinct elements in order of first occurrence.
Dedupe(xs, seen) ==
  IF xs = <<>> THEN <<>>
  ELSE IF Head(xs) \in seen THEN Dedupe(Tail(xs), seen)
  ELSE << Head(xs) >> \o Dedupe(Tail(xs), seen \cup {Head(xs)})

\* Array.prototype.filter.
Filter(xs, Keep(_)) == SelectSeq(xs, Keep)

(***************************************************************************)
(* Percent-encoding of the platform.                                       *)
(***************************************************************************)
\* The characters encodeURIComponent leaves alone.
UriUnreserved == Alpha \cup Digits \cup {"-", "_", ".", "!", "~", "*", "'", "(", ")"}

RECURSIVE EncodeURIComponent(_)
EncodeURIComponent(s) ==
  IF s = <<>> THEN <<>>
  ELSE (IF Head(s) \in UriUnreserved THEN << Head(s) >> ELSE PercentOf(Head(s)))
       \o EncodeURIComponent(Tail(s))

\* A '%' at 1-based position i of s starts a valid escape.
IsEscapeAt(s, i) ==
  /\ i + 2 <= Len(s)
  /\ s[i] = "%"
  /\ s[i + 1] \in HexChars
  /\ s[i + 2] \in HexChars

EscapeCode(s, i) == 16 * HexVal(s[i + 1]) + HexVal(s[i + 2])

RECURSIVE DecodeFrom(_, _)
\* decodeURIComponent from position i on: the decoded text, or threw (URIError)
\* for a '%' that starts no escape or an escape that is not an ASCII byte
\* (the alphabet holds no multi-byte UTF-8 sequence, and a lone byte >= 0x80
\* is malformed).
DecodeFrom(s, i) ==
  IF i > Len(s) THEN [threw |-> FALSE, s |-> <<>>]
  ELSE IF s[i] # "%"
    THEN LET rest == DecodeFrom(s, i + 1)
         IN  [threw |-> rest.threw, s |-> << s[i] >> \o rest.s]
  ELSE IF ~IsEscapeAt(s, i) \/ EscapeCode(s, i) >= 128
    THEN [threw |-> TRUE, s |-> <<>>]
  ELSE LET rest == DecodeFrom(s, i + 3)
       IN  [threw |-> rest.threw, s |-> << ChrOf(EscapeCode(s, i)) >> \o rest.s]

DecodeURIComponent(s) ==
  LET d == DecodeFrom(s, 1)
  IN  IF d.threw THEN [threw |-> TRUE, s |-> <<>>] ELSE d

\* Array.prototype.map.
MapSeq(xs, F(_)) == [i \in 1..Len(xs) |-> F(xs[i])]

(***************************************************************************)
(* The pattern compiler (util.ts).                                         *)
(***************************************************************************)
\* The characters escapeRegex puts a backslash before.
RegexSpecial == {"-", "/", "\\", "^", "$", "*", "+", "?", ".", "(", ")", "|", "[", "]", "{", "}"}

RECURSIVE escapeRegex(_)
escapeRegex(value) ==
  IF value = <<>> THEN <<>>
  ELSE (IF Head(value) \in RegexSpecial THEN << "\\", Head(value) >> ELSE << Head(value) >>)
       \o escapeRegex(Tail(value))

\* The source text of the capturing group pathToRegex emits for a token.
GroupSource == << "(", "[", "^", "/", "]", "+", ")" >>

\* The first match of /\[(.*?)\]/g in segment at or after 0-based index from:
\* the leftmost '[' that some ']' follows, up to the first ']' after it.
\* found = FALSE when there is none.
ParamMatch(segment, from) ==
  LET Closes(i) == {j \in (i + 1)..Len(segment) : segment[j] = "]"}
      FirstClose(i) == CHOOSE x \in Closes(i) : \A y \in Closes(i) : x <= y
      opens == {i \in (from + 1)..Len(segment) :
                  /\ segment[i] = "["
                  /\ Closes(i) # {}
                  \* '.' matches no line terminator
                  /\ \A y \in (i + 1)..(FirstClose(i) - 1) : segment[y] # "\n"}
  IN  IF opens = {} THEN [found |-> FALSE, index |-> 0, name |-> <<>>, end |-> 0]
      ELSE LET i == CHOOSE x \in opens : \A y \in opens : x <= y
               j == FirstClose(i)
           IN  [found |-> TRUE, index |-> i - 1,
                name |-> SubSeq(segment, i + 1, j - 1), end |-> j]

RECURSIVE SegmentScanDropsTail(_, _, _, _)
\* SegmentScan without the literal text that follows the last token.
SegmentScanDropsTail(segment, lastIndex, names, segmentRegex) ==
  LET m == ParamMatch(segment, lastIndex)
  IN  IF m.found
        THEN SegmentScanDropsTail(segment, m.end, Append(names, m.name),
               segmentRegex \o escapeRegex(SubSeq(segment, lastIndex + 1, m.index))
                            \o GroupSource)
        ELSE [names |-> names,
              regex |-> IF segmentRegex = <<>> THEN escapeRegex(segment) ELSE segmentRegex]

RECURSIVE SegmentScan(_, _, _, _)
\* The while loop of pathToRegex over one segment: the names found and the
\* segment's regular-expression source.
SegmentScan(segment, lastIndex, names, segmentRegex) ==
  LET m == ParamMatch(segment, lastIndex)
  IN  IF m.found
        THEN SegmentScan(segment, m.end, Append(names, m.name),
               segmentRegex \o escapeRegex(SubSeq(segment, lastIndex + 1, m.index))
                            \o GroupSource)
        ELSE [names |-> names,
              regex |-> IF lastIndex < Len(segment)
                          THEN segmentRegex \o escapeRegex(SliceFrom(segment, lastIndex))
                          ELSE IF segmentRegex = <<>> THEN escapeRegex(segment)
                          ELSE segmentRegex]

RECURSIVE SegmentsScan(_)
SegmentsScan(segments) ==
  IF segments = <<>> THEN [names |-> <<>>, parts |-> <<>>]
  ELSE LET one  == SegmentScan(Head(segments), 0, <<>>, <<>>)
           rest == SegmentsScan(Tail(segments))
       IN  [names |-> one.names \o rest.names, parts |-> << one.regex >> \o rest.parts]

\* throw new Error(`pathToRegex: <what>: "${original}"`)
PathError(what, original) ==
  [threw |-> TRUE, what |-> what, quoted |-> original, regex |-> <<>>, paramNames |-> <<>>]

\* pathToRegex without the test for white space.
pathToRegexNoWhitespaceTest(original) ==
  LET path == Trim(original)
      scan == SegmentsScan(Split(path, << "/" >>))
  IN  IF Includes(path, << "/", "/" >>) THEN PathError("duplicate slash", original)
      ELSE IF StartsWith(path, << "/" >>) THEN PathError("leading slash", original)
      ELSE IF EndsWith(path, << "/" >>) /\ path # <<>>
        THEN PathError("trailing slash", original)
      ELSE [threw |-> FALSE, what |-> "", quoted |-> <<>>,
            regex |-> << "^" >> \o (IF path = <<>> THEN <<>> ELSE Join(scan.parts, << "/" >>))
                      \o << "$" >>,
            paramNames |-> scan.names]

pathToRegex(original) ==
  LET path == Trim(original)
      scan == SegmentsScan(Split(path, << "/" >>))
  IN  IF Includes(path, << "/", "/" >>) THEN PathError("duplicate slash", original)
      ELSE IF \E i \in 1..Len(path) : path[i] \in WhiteSpace
        THEN PathError("whitespace", original)
      ELSE IF StartsWith(path, << "/" >>) THEN PathError("leading slash", original)
      ELSE IF EndsWith(path, << "/" >>) /\ path # <<>>
        THEN PathError("trailing slash", original)
      ELSE [threw |-> FALSE, what |-> "", quoted |-> <<>>,
            regex |-> << "^" >> \o (IF path = <<>> THEN <<>> ELSE Join(scan.parts, << "/" >>))
                      \o << "$" >>,
            paramNames |-> scan.names]

extractParamNames(path) == SegmentsScan(Split(path, << "/" >>)).names

(***************************************************************************)
(* The regular expressions pathToRegex builds, as RegExp runs them:        *)
(* ^ and $ anchors, backslash-escaped literals, plain literals and the     *)
(* greedy group ([^/]+), matched with backtracking.                        *)
(***************************************************************************)
RECURSIVE RegexTokens(_)
\* new RegExp(source), without the anchors: literal and group tokens.
RegexTokens(src) ==
  IF src = <<>> THEN <<>>
  ELSE IF StartsWith(src, GroupSource)
    THEN << [group |-> TRUE, c |-> ""] >> \o RegexTokens(SliceFrom(src, Len(GroupSource)))
  ELSE IF Head(src) = "\\" /\ Len(src) >= 2
    THEN << [group |-> FALSE, c |-> src[2]] >> \o RegexTokens(SliceFrom(src, 2))
  ELSE << [group |-> FALSE, c |-> Head(src)] >> \o RegexTokens(Tail(src))

\* The length of the longest run of characters other than '/' from 1-based si.
RunLength(s, si) ==
  LET stops == {j \in si..Len(s) : s[j] = "/"}
  IN  IF stops = {} THEN Len(s) - si + 1
      ELSE (CHOOSE j \in stops : \A k \in stops : j <= k) - si

RECURSIVE MatchAt(_, _, _, _)
RECURSIVE TryGroup(_, _, _, _, _)
\* The tokens from ti on match s from si to its end.
MatchAt(toks, ti, s, si) ==
  IF ti > Len(toks) THEN [ok |-> si = Len(s) + 1, groups |-> <<>>]
  ELSE IF toks[ti].group THEN TryGroup(toks, ti, s, si, RunLength(s, si))
  ELSE IF si <= Len(s) /\ s[si] = toks[ti].c THEN MatchAt(toks, ti + 1, s, si + 1)
  ELSE [ok |-> FALSE, groups |-> <<>>]

\* Greedy: the group takes n characters, then fewer, down to one.
TryGroup(toks, ti, s, si, n) ==
  IF n <= 0 THEN [ok |-> FALSE, groups |-> <<>>]
  ELSE LET rest == MatchAt(toks, ti + 1, s, si + n)
       IN  IF rest.ok
             THEN [ok |-> TRUE, groups |-> << SubSeq(s, si, si + n - 1) >> \o rest.groups]
             ELSE TryGroup(toks, ti, s, si, n - 1)

\* regex.exec(s) for an anchored source: ok, and the capture groups in order.
RegexExec(src, s) ==
  MatchAt(RegexTokens(SubSeq(src, 2, Len(src) - 1)), 1, s, 1)

(***************************************************************************)
(* The query reader (util.ts getQueryValues, query.ts QueryParamsBase).    *)
(* A raw mapping is a function from keys to entries [isArray, items]: a    *)
(* single string is an entry with isArray = FALSE and one item.            *)
(***************************************************************************)
NotEmpty(s) == s # <<>>

\* getQueryValues without the trimming of the values.
getQueryValuesUntrimmed(params, key) ==
  LET values  == IF key \in DOMAIN params THEN params[key].items
                 ELSE << <<>> >>
      nonEmpty == Filter(values, NotEmpty)
  IN  Dedupe(nonEmpty, {})

getQueryValues(params, key) ==
  LET values  == IF key \in DOMAIN params THEN params[key].items
                 ELSE << <<>> >>   \* [undefined]: v?.trim() ?? '' is ''
      trimmed  == MapSeq(values, Trim)
      nonEmpty == Filter(trimmed, NotEmpty)
  IN  Dedupe(nonEmpty, {})

\* QueryParamsBase.values
ReaderValues(params, key) == getQueryValues(params, key)

\* QueryParamsBase.value / firstValue: defined = FALSE is undefined.
ReaderValue(params, key) ==
  LET valuesByKey == ReaderValues(params, key)
  IN  IF Len(valuesByKey) > 0 THEN [defined |-> TRUE, s |-> valuesByKey[1]]
      ELSE [defined |-> FALSE, s |-> <<>>]

(***************************************************************************)
(* The platform's URL parser (WHATWG URL), for the URLs the engine hands   *)
(* it: 'http://dummy.com/' + relative, a fully qualified http(s) URL, and   *)
(* a relative reference resolved against 'http://localhost'.               *)
(***************************************************************************)
\* Percent-encode sets, printable ASCII part.
FragmentEncodeSet == {" ", "\"", "<", ">", "GRAVE"}

QueryEncodeSet == {" ", "\"", "#", "<", ">", "'"}

PathEncodeSet == {" ", "\"", "#", "<", ">", "?", "^", "GRAVE", "{", "}"}

RECURSIVE UrlEncode(_, _)
UrlEncode(s, set) ==
  IF s = <<>> THEN <<>>
  ELSE (IF Head(s) \in set THEN PercentOf(Head(s)) ELSE << Head(s) >>)
       \o UrlEncode(Tail(s), set)

IsTabOrNewline(c) == c \in {"\t", "\n"}

NotTabOrNewline(c) == ~IsTabOrNewline(c)

RECURSIVE StripSpaces(_)
\* Leading and trailing spaces are stripped, tabs and newlines removed.
StripSpaces(s) ==
  IF s # <<>> /\ Head(s) = " " THEN StripSpaces(Tail(s))
  ELSE IF s # <<>> /\ s[Len(s)] = " " THEN StripSpaces(SubSeq(s, 1, Len(s) - 1))
  ELSE s

UrlPreprocess(s) == StripSpaces(Filter(s, NotTabOrNewline))

\* The 1-based index of the first character of s in set, or Len(s) + 1.
FirstIndexIn(s, set) ==
  LET hits == {i \in 1..Len(s) : s[i] \in set}
  IN  IF hits = {} THEN Len(s) + 1 ELSE CHOOSE i \in hits : \A j \in hits : i <= j

IsSingleDot(seg) == ToLowerCase(seg) \in {<< "." >>, << "%", "2", "e" >>}

IsDoubleDot(seg) ==
  ToLowerCase(seg) \in {<< ".", "." >>, << ".", "%", "2", "e" >>,
                        << "%", "2", "e", "." >>, << "%", "2", "e", "%", "2", "e" >>}

RECURSIVE PathSegments(_, _)
\* The path state over the raw segments: dot segments resolved, the others
\* percent-encoded.
PathSegments(raw, out) ==
  IF raw = <<>> THEN out
  ELSE LET seg == Head(raw)
           last == Len(raw) = 1
       IN  IF IsDoubleDot(seg)
             THEN PathSegments(Tail(raw),
                    (IF out = <<>> THEN out ELSE SubSeq(out, 1, Len(out) - 1))
                    \o (IF last THEN << <<>> >> ELSE <<>>))
           ELSE IF IsSingleDot(seg)
             THEN PathSegments(Tail(raw), out \o (IF last THEN << <<>> >> ELSE <<>>))
           ELSE PathSegments(Tail(raw), Append(out, UrlEncode(seg, PathEncodeSet)))

BackslashToSlash(c) == IF c = "\\" THEN "/" ELSE c

\* pathname, search and hash of a special-scheme URL whose text after the
\* authority is rest (empty, or starting with '/', '?' or '#').
UrlAfterAuthority(rest) ==
  LET hashAt  == FirstIndexIn(rest, {"#"})
      beforeH == SubSeq(rest, 1, hashAt - 1)
      frag    == SubSeq(rest, hashAt + 1, Len(rest))
      qAt     == FirstIndexIn(beforeH, {"?"})
      rawPath == MapSeq(SubSeq(beforeH, 1, qAt - 1), BackslashToSlash)
      query   == SubSeq(beforeH, qAt + 1, Len(beforeH))
      segs    == IF rawPath = <<>> THEN << <<>> >> ELSE Split(Tail(rawPath), << "/" >>)
  IN  [failed   |-> FALSE,
       pathname |-> << "/" >> \o Join(PathSegments(segs, <<>>), << "/" >>),
       search   |-> IF query = <<>> THEN <<>>
                    ELSE << "?" >> \o UrlEncode(query, QueryEncodeSet),
       hash     |-> IF frag = <<>> THEN <<>>
                    ELSE << "#" >> \o UrlEncode(frag, FragmentEncodeSet)]

UrlFailure == [failed |-> TRUE, pathname |-> <<>>, search |-> <<>>, hash |-> <<>>]

\* Code points a host may not hold (forbidden domain code points), printable
\* ASCII part; the authority delimiters are split off before.
ForbiddenHost == {" ", "#", "/", ":", "<", ">", "?", "@", "[", "\\", "]", "^", "|", "%"}

RECURSIVE LenientDecode(_)
\* Percent-decoding that leaves a malformed '%' in place (and, here, an
\* escape of a byte outside the alphabet).
LenientDecode(s) ==
  IF s = <<>> THEN <<>>
  ELSE IF IsEscapeAt(s, 1) /\ EscapeCode(s, 1) \in (32..126) \cup {9, 10}
    THEN << ChrOf(EscapeCode(s, 1)) >> \o LenientDecode(SliceFrom(s, 3))
  ELSE << Head(s) >> \o LenientDecode(Tail(s))

\* The host parser's verdict on an authority without userinfo or port whose
\* last label is not a number: it fails on an empty host and on a forbidden
\* code point.
HostFails(authority) ==
  \/ authority = <<>>
  \/ \E i \in 1..Len(LenientDecode(authority)) : LenientDecode(authority)[i] \in ForbiddenHost

RECURSIVE SkipSlashes(_)
SkipSlashes(s) ==
  IF s # <<>> /\ Head(s) \in {"/", "\\"} THEN SkipSlashes(Tail(s)) ELSE s

\* A special-scheme URL from its authority on (the text after 'scheme:' and
\* any run of slashes).
UrlFromAuthority(text) ==
  LET endAt == FirstIndexIn(text, {"/", "\\", "?", "#"})
  IN  IF HostFails(SubSeq(text, 1, endAt - 1)) THEN UrlFailure
      ELSE UrlAfterAuthority(SubSeq(text, endAt, Len(text)))

SchemeChars == Alpha \cup Digits \cup {"+", "-", "."}

\* /^[a-zA-Z][a-zA-Z\d+\-.]*:\/\//.test(input): the length of the prefix
\* matched, 0 when the test fails.
SchemePrefixLength(input) ==
  LET ends == {i \in 2..(Len(input) - 2) :
                 /\ input[1] \in Alpha
                 /\ \A j \in 2..(i - 1) : input[j] \in SchemeChars
                 /\ input[i] = ":" /\ input[i + 1] = "/" /\ input[i + 2] = "/"}
  IN  IF ends = {} THEN 0 ELSE (CHOOSE i \in ends : \A j \in ends : i <= j) + 2

SpecialSchemes == {<< "h", "t", "t", "p" >>, << "h", "t", "t", "p", "s" >>}

\* new URL(input) for a fully qualified input of a special scheme.
NewUrlAbsolute(input) ==
  LET text == UrlPreprocess(input)
      n    == SchemePrefixLength(text)
  IN  IF n = 0 \/ ToLowerCase(SubSeq(text, 1, n - 3)) \notin SpecialSchemes THEN UrlFailure
      ELSE UrlFromAuthority(SkipSlashes(SliceFrom(text, n - 2)))

\* new URL(relative, 'http://localhost'): the relative state of the parser,
\* for a reference that starts with no scheme.
NewUrlRelative(reference) ==
  LET text == UrlPreprocess(reference)
  IN  IF text # <<>> /\ Head(text) \in {"/", "\\"}
        THEN IF Len(text) >= 2 /\ text[2] \in {"/", "\\"}
               THEN UrlFromAuthority(SkipSlashes(text))
               ELSE UrlAfterAuthority(text)
      ELSE IF text = <<>> \/ Head(text) \in {"?", "#"} THEN UrlAfterAuthority(text)
      ELSE UrlAfterAuthority(<< "/" >> \o text)

(***************************************************************************)
(* getRelativePart (util.ts).  An input is [kind, s]: kind "string" with   *)
(* its text, or "null" / "other" for a value that is no string and no URL. *)
(***************************************************************************)
Undefined == [defined |-> FALSE, s |-> <<>>]

Defined(s) == [defined |-> TRUE, s |-> s]

DummyBase == << "h", "t", "t", "p", ":", "/", "/", "d", "u", "m", "m", "y", ".", "c", "o", "m", "/" >>

getRelativePart(urlString) ==
  IF urlString.kind # "string" THEN Undefined
  ELSE LET input    == Trim(urlString.s)
           relative == IF StartsWith(input, << "/" >>) THEN SliceFrom(input, 1) ELSE input
           url      == IF SchemePrefixLength(input) > 0 THEN NewUrlAbsolute(input)
                       ELSE NewUrlAbsolute(DummyBase \o relative)
       IN  IF url.failed THEN Undefined
           ELSE Defined(SliceFrom(url.pathname, 1) \o url.search \o url.hash)

(***************************************************************************)
(* JavaScript values, as the value encoder tells them apart.  t is the     *)
(* kind; s is the native string form of a primitive, the description of a   *)
(* symbol, the JSON text of a plain object or what an object's own          *)
(* toString returns; ok = FALSE says that JSON.stringify (plain) or         *)
(* toString (custom) throws; items are an array's elements.                 *)
(***************************************************************************)
Value(t, s, ok, items) == [t |-> t, s |-> s, ok |-> ok, items |-> items]

VNull == Value("null", <<>>, TRUE, <<>>)

VStr(s) == Value("string", s, TRUE, <<>>)

VNum(s) == Value("number", s, TRUE, <<>>)

VSym(s) == Value("symbol", s, TRUE, <<>>)

VFn == Value("function", <<>>, TRUE, <<>>)

VPlain(json, ok) == Value("plain", json, ok, <<>>)

VCustom(s, ok) == Value("custom", s, ok, <<>>)

VArr(items) == Value("array", <<>>, TRUE, items)

ObjectObject ==
  << "[", "o", "b", "j", "e", "c", "t", " ", "O", "b", "j", "e", "c", "t", "]" >>

\* String(v) of an array element inside Array.prototype.toString; threw when
\* the element's own toString throws.
ElementString(v) ==
  IF v.t \in {"null", "function"} THEN [threw |-> FALSE, s |-> <<>>]
  ELSE IF v.t = "plain" THEN [threw |-> FALSE, s |-> ObjectObject]
  ELSE IF v.t = "custom" THEN [threw |-> ~v.ok, s |-> IF v.ok THEN v.s ELSE <<>>]
  ELSE [threw |-> FALSE, s |-> v.s]

\* toSafeString (serialize-query.ts 75-107).
toSafeString(val) ==
  IF val.t = "null" THEN <<>>
  ELSE IF val.t \in {"string", "number", "boolean", "bigint"} THEN val.s
  ELSE IF val.t = "symbol" THEN val.s
  ELSE IF val.t = "custom" THEN (IF val.ok THEN val.s ELSE <<>>)
  ELSE IF val.t = "array"
    THEN \* an array's toString is not Object.prototype.toString
         IF \E i \in 1..Len(val.items) : ElementString(val.items[i]).threw THEN <<>>
         ELSE Join([i \in 1..Len(val.items) |-> ElementString(val.items[i]).s], << "," >>)
  ELSE IF val.t = "plain" THEN (IF val.ok THEN val.s ELSE <<>>)
  ELSE <<>>

\* hasCustomToString (serialize-query.ts 354-359).
hasCustomToString(value) == value.t # "plain"

\* processQueryValues (serialize-query.ts 164-168).
processQueryValues(valuesByKey) ==
  Dedupe(Filter(MapSeq(valuesByKey, Trim), NotEmpty), {})

(***************************************************************************)
(* Objects with string keys are sequences of entries [k, v] in insertion   *)
(* order; an optional object is [defined, entries].                        *)
(***************************************************************************)
Keys(entries) == {entries[i].k : i \in 1..Len(entries)}

HasKey(entries, k) == k \in Keys(entries)

Get(entries, k) == entries[CHOOSE i \in 1..Len(entries) : entries[i].k = k].v

\* obj[k] = v
Put(entries, k, v) ==
  IF HasKey(entries, k)
    THEN [i \in 1..Len(entries) |-> IF entries[i].k = k THEN [k |-> k, v |-> v] ELSE entries[i]]
    ELSE Append(entries, [k |-> k, v |-> v])

NoObject == [defined |-> FALSE, entries |-> <<>>]

Object(entries) == [defined |-> TRUE, entries |-> entries]

(***************************************************************************)
(* Routes.  A hook the route does not define has defined = FALSE.          *)
(*   encodeQueryValue: table maps a value to what the encoder does with    *)
(*     it, [threw, s];                                                     *)
(*   serializeQuery: returns is the string the serializer returns for the  *)
(*     call at hand;                                                       *)
(*   getQuery: the keys the typed query reads, each with value(k) or,      *)
(*     when multi, values(k); the default getQuery reads none.             *)
(***************************************************************************)
NoEncoder == [defined |-> FALSE, table |-> <<>>]

Encoder(table) == [defined |-> TRUE, table |-> table]

NoSerializer == [defined |-> FALSE, returns |-> <<>>]

Serializer(returns) == [defined |-> TRUE, returns |-> returns]

Route(path, getQuery, encodeQueryValue, serializeQuery) ==
  [path |-> path, getQuery |-> getQuery,
   encodeQueryValue |-> encodeQueryValue, serializeQuery |-> serializeQuery]

PlainRoute(path) == Route(path, <<>>, NoEncoder, NoSerializer)

(***************************************************************************)
(* The route matcher (serialize-query.ts 204-261).                         *)
(***************************************************************************)
PlusToSpace(c) == IF c = "+" THEN " " ELSE c

\* One name=value piece of the query string, as URLSearchParams parses it.
SearchPair(piece) ==
  LET eqAt == FirstIndexIn(piece, {"="})
  IN  [k |-> LenientDecode(MapSeq(SubSeq(piece, 1, eqAt - 1), PlusToSpace)),
       v |-> LenientDecode(MapSeq(SubSeq(piece, eqAt + 1, Len(piece)), PlusToSpace))]

\* urlObj.searchParams: the name/value pairs of the search string, in order.
SearchParams(search) ==
  IF search = <<>> THEN <<>>
  ELSE MapSeq(Filter(Split(Tail(search), << "&" >>), NotEmpty), SearchPair)

\* searchParams.getAll(key)
GetAll(pairs, key) ==
  LET HasThisKey(p) == p.k = key
      ValueOf(p) == p.v
  IN  MapSeq(Filter(pairs, HasThisKey), ValueOf)

\* The raw key -> values mapping findRoute hands to the reader.
RawQuery(pairs) ==
  [key \in Keys(pairs) |-> [isArray |-> TRUE, items |-> processQueryValues(GetAll(pairs, key))]]

\* route.getQuery(reader): the typed query object.
TypedQuery(getQuery, raw) ==
  [i \in 1..Len(getQuery) |->
     [k |-> getQuery[i].k,
      v |-> IF getQuery[i].multi
              THEN VArr(MapSeq(ReaderValues(raw, getQuery[i].k), VStr))
              ELSE IF ReaderValue(raw, getQuery[i].k).defined
                THEN VStr(ReaderValue(raw, getQuery[i].k).s)
                ELSE VNull]]

NoMatch ==
  [threw |-> FALSE, error |-> "", found |-> FALSE, index |-> 0, params |-> <<>>,
   query |-> <<>>, fullPath |-> <<>>, fragment |-> <<>>]

Thrown(error) == [NoMatch EXCEPT !.threw = TRUE, !.error = error]

RECURSIVE DecodedParams(_, _, _)
\* decodedPathParams[paramNames[i]] = decodeURIComponent(match[i + 1]), in
\* order; threw when a capture is no valid escape sequence.
DecodedParams(paramNames, groups, acc) ==
  IF paramNames = <<>> THEN [threw |-> FALSE, entries |-> acc]
  ELSE LET d == DecodeURIComponent(Head(groups))
       IN  IF d.threw THEN [threw |-> TRUE, entries |-> <<>>]
           ELSE DecodedParams(Tail(paramNames), Tail(groups), Put(acc, Head(paramNames), d.s))

RECURSIVE ScanRoutesLastMatch(_, _, _, _, _, _)
\* ScanRoutes that keeps scanning after a match and returns the last one.
ScanRoutesLastMatch(routes, i, path, fragment, urlObj, relativePart) ==
  IF i > Len(routes) THEN NoMatch
  ELSE LET compiled == pathToRegex(routes[i].path)
           later    == ScanRoutesLastMatch(routes, i + 1, path, fragment, urlObj, relativePart)
       IN  IF compiled.threw THEN Thrown("pathToRegex")
           ELSE LET match == RegexExec(compiled.regex, path)
                IN  IF ~match.ok \/ later.found THEN later
                    ELSE LET decoded == DecodedParams(compiled.paramNames, match.groups, <<>>)
                         IN  IF decoded.threw THEN Thrown("URIError")
                             ELSE [threw |-> FALSE, error |-> "", found |-> TRUE, index |-> i,
                                   params |-> decoded.entries,
                                   query |-> TypedQuery(routes[i].getQuery,
                                                        RawQuery(SearchParams(urlObj.search))),
                                   fullPath |-> relativePart,
                                   fragment |-> fragment]

RECURSIVE ScanRoutes(_, _, _, _, _, _)
\* The for loop over the table from position i on.
ScanRoutes(routes, i, path, fragment, urlObj, relativePart) ==
  IF i > Len(routes) THEN NoMatch
  ELSE LET compiled == pathToRegex(routes[i].path)
       IN  IF compiled.threw THEN Thrown("pathToRegex")
           ELSE LET match == RegexExec(compiled.regex, path)
                IN  IF ~match.ok
                      THEN ScanRoutes(routes, i + 1, path, fragment, urlObj, relativePart)
                    ELSE LET decoded == DecodedParams(compiled.paramNames, match.groups, <<>>)
                         IN  IF decoded.threw THEN Thrown("URIError")
                             ELSE [threw |-> FALSE, error |-> "", found |-> TRUE, index |-> i,
                                   params |-> decoded.entries,
                                   query |-> TypedQuery(routes[i].getQuery,
                                                        RawQuery(SearchParams(urlObj.search))),
                                   fullPath |-> relativePart,
                                   fragment |-> fragment]

\* findRoute once path and fragment are decoded.
FindDecoded(path, fragment, urlObj, relativePart, routes) ==
  IF path.threw \/ fragment.threw THEN Thrown("URIError")
  ELSE ScanRoutes(routes, 1, path.s, fragment.s, urlObj, relativePart)

\* findRoute after urlObj = new URL(relativePart, 'http://localhost').
FindInUrl(urlObj, relativePart, routes) ==
  IF urlObj.failed THEN Thrown("TypeError")
  ELSE FindDecoded(DecodeURIComponent(SkipSlashes(urlObj.pathname)),
                   DecodeURIComponent(IF urlObj.hash = <<>> THEN <<>> ELSE Tail(urlObj.hash)),
                   urlObj, relativePart, routes)

\* findRoute after relativePart = getRelativePart(urlString).
FindRelative(relativePart, routes) ==
  IF ~relativePart.defined THEN NoMatch
  ELSE FindInUrl(NewUrlRelative(relativePart.s), relativePart.s, routes)

findRoute(urlString, routes) == FindRelative(getRelativePart(urlString), routes)

(***************************************************************************)
(* The value encoder (serialize-query.ts 303-401).                         *)
(***************************************************************************)
\* encodeValue
encodeValue(value) ==
  IF toSafeString(value) = <<>> THEN <<>> ELSE EncodeURIComponent(toSafeString(value))

\* getRawEncodedValue that takes the safe string when the encoder throws.
getRawEncodedValueFallsBack(value, customEncoder) ==
  IF ~customEncoder.defined THEN toSafeString(value)
  ELSE IF customEncoder.table[value].threw THEN toSafeString(value)
  ELSE customEncoder.table[value].s

\* getRawEncodedValue: the custom encoder's output, '' when it throws; the
\* safe string without a custom encoder.
getRawEncodedValue(value, customEncoder) ==
  IF ~customEncoder.defined THEN toSafeString(value)
  ELSE IF customEncoder.table[value].threw THEN <<>>
  ELSE customEncoder.table[value].s

RECURSIVE NormalizeFrom(_, _)
NormalizeFrom(input, i) ==
  IF i > Len(input) THEN <<>>
  ELSE IF input[i] = "%" /\ ~IsEscapeAt(input, i)
    THEN << "%", "2", "5" >> \o NormalizeFrom(input, i + 1)
  ELSE << input[i] >> \o NormalizeFrom(input, i + 1)

\* normalizePercentEscapes that leaves its input as it is.
normalizePercentEscapesOff(input) == input

\* normalizePercentEscapes: input.replace(/%(?![0-9A-Fa-f]{2})/g, '%25')
normalizePercentEscapes(input) == NormalizeFrom(input, 1)

\* The class /[\s#&=?/;:@$,]/ of encodeReservedChars.
ReservedChars == WhiteSpace \cup {"#", "&", "=", "?", "/", ";", ":", "@", "$", ","}

RECURSIVE encodeReservedChars(_)
encodeReservedChars(input) ==
  IF input = <<>> THEN <<>>
  ELSE (IF Head(input) \in ReservedChars THEN EncodeURIComponent(<< Head(input) >>)
        ELSE << Head(input) >>)
       \o encodeReservedChars(Tail(input))

\* encodeKeyValue: '' for a null value or an empty raw value, else key=value.
encodeKeyValue(key, value, route) ==
  LET rawValue == getRawEncodedValue(value, route.encodeQueryValue)
  IN  IF value.t = "null" THEN <<>>
      ELSE IF rawValue = <<>> THEN <<>>
      ELSE EncodeURIComponent(key) \o << "=" >>
           \o encodeReservedChars(normalizePercentEscapes(rawValue))

RECURSIVE Collect(_, _, _, _)
\* The for loop of encodeKeyValues over an array's elements.
Collect(items, seen, key, route) ==
  IF items = <<>> THEN <<>>
  ELSE LET v == Head(items)
           safe == toSafeString(v)
       IN  IF v.t = "null" \/ safe \in seen \/ ~hasCustomToString(v)
             THEN Collect(Tail(items), seen, key, route)
             ELSE << [raw |-> safe, pair |-> encodeKeyValue(key, v, route)] >>
                  \o Collect(Tail(items), seen \cup {safe}, key, route)

RECURSIVE InsertByRaw(_, _)
InsertByRaw(sorted, c) ==
  IF sorted = <<>> THEN << c >>
  ELSE IF StrLess(c.raw, Head(sorted).raw) THEN << c >> \o sorted
  ELSE << Head(sorted) >> \o InsertByRaw(Tail(sorted), c)

RECURSIVE SortByRaw(_)
\* collected.sort by raw, ascending (a stable sort).
SortByRaw(collected) ==
  IF collected = <<>> THEN <<>>
  ELSE InsertByRaw(SortByRaw(SubSeq(collected, 1, Len(collected) - 1)),
                   collected[Len(collected)])

PairOf(c) == c.pair

\* encodeKeyValues: the list of pairs of one entry of the query.
encodeKeyValues(key, value, route) ==
  IF value.t = "null" THEN <<>>
  ELSE IF value.t = "array"
    THEN MapSeq(SortByRaw(Collect(value.items, {}, key, route)), PairOf)
  ELSE IF encodeKeyValue(key, value, route) # <<>>
    THEN << encodeKeyValue(key, value, route) >>
  ELSE <<>>

RECURSIVE QueryPairs(_, _)
\* entries.filter(value != null).flatMap(encodeKeyValues)
QueryPairs(entries, route) ==
  IF entries = <<>> THEN <<>>
  ELSE encodeKeyValues(Head(entries).k, Head(entries).v, route)
       \o QueryPairs(Tail(entries), route)

\* buildQueryString, for a query that is [defined, entries].
buildQueryString(query, route) ==
  IF ~query.defined THEN <<>>
  ELSE Join(QueryPairs(query.entries, route), << "&" >>)

(***************************************************************************)
(* The href builder (serialize-query.ts 263-301, 412-466).                 *)
(* Arguments: params is an optional object whose values are optional       *)
(* strings; query an optional object of values; fragment an optional       *)
(* string; contextFragment the fragment of a fragment-bearing context.     *)
(***************************************************************************)
IsMissing(params, name) ==
  \/ ~HasKey(params.entries, name)
  \/ ~Get(params.entries, name).defined

\* validatePathParams that takes a key holding null for a provided one.
validatePathParamsPresentOnly(route, params) ==
  LET requiredParams == extractParamNames(route.path)
      Missing(name)  == ~HasKey(params.entries, name)
      missingParams  == Filter(requiredParams, Missing)
  IN  [threw |-> Len(missingParams) > 0, missing |-> missingParams]

\* validatePathParams: the names that are missing; it throws when there are
\* some and otherwise only warns about unused keys.
validatePathParams(route, params) ==
  LET requiredParams == extractParamNames(route.path)
      Missing(name)  == IsMissing(params, name)
      missingParams  == Filter(requiredParams, Missing)
  IN  [threw |-> Len(missingParams) > 0, missing |-> missingParams]

\* String(value) of a path parameter value.
ParamString(v) ==
  IF v.defined THEN v.s ELSE << "u", "n", "d", "e", "f", "i", "n", "e", "d" >>

RECURSIVE ReplaceTokensOnce(_, _)
\* ReplaceTokens that replaces only the first occurrence of a token.
ReplaceTokensOnce(path, entries) ==
  IF entries = <<>> THEN path
  ELSE LET token == << "[" >> \o Head(entries).k \o << "]" >>
           parts == Split(path, token)
       IN  ReplaceTokensOnce(
             IF Includes(path, token)
               THEN Head(parts) \o EncodeURIComponent(ParamString(Head(entries).v))
                      \o Join(Tail(parts), token)
               ELSE path,
             Tail(entries))

RECURSIVE ReplaceTokens(_, _)
\* The for loop of buildPath over the entries of params.
ReplaceTokens(path, entries) ==
  IF entries = <<>> THEN path
  ELSE LET token == << "[" >> \o Head(entries).k \o << "]" >>
       IN  ReplaceTokens(
             IF Includes(path, token)
               THEN Join(Split(path, token), EncodeURIComponent(ParamString(Head(entries).v)))
               ELSE path,
             Tail(entries))

buildPath(route, params) ==
  IF ~params.defined THEN route.path ELSE ReplaceTokens(route.path, params.entries)

\* buildFragment that percent-encodes every fragment.
buildFragmentAlwaysEncodes(fragment) ==
  IF ~fragment.defined \/ fragment.s = <<>> THEN <<>>
  ELSE << "#" >> \o EncodeURIComponent(fragment.s)

\* buildFragment
buildFragment(fragment) ==
  IF ~fragment.defined \/ fragment.s = <<>> THEN <<>>
  ELSE LET decoded == DecodeURIComponent(fragment.s)
       IN  IF ~decoded.threw
              /\ ToLowerCase(EncodeURIComponent(decoded.s)) = ToLowerCase(fragment.s)
             THEN << "#" >> \o fragment.s
             ELSE << "#" >> \o EncodeURIComponent(fragment.s)

HrefArgs(params, query, fragment, contextFragment) ==
  [params |-> params, query |-> query, fragment |-> fragment,
   contextFragment |-> contextFragment]

\* HrefQueryString that does not trim what the serializer returns.
HrefQueryStringUntrimmed(route, args) ==
  IF ~args.query.defined THEN <<>>
  ELSE IF route.serializeQuery.defined
    THEN route.serializeQuery.returns
  ELSE buildQueryString(args.query, route)

\* HrefQueryString that always takes the default pipeline.
HrefQueryStringDefault(route, args) ==
  IF ~args.query.defined THEN <<>> ELSE buildQueryString(args.query, route)

\* The query string buildHref computes.
HrefQueryString(route, args) ==
  IF ~args.query.defined THEN <<>>
  ELSE IF route.serializeQuery.defined
    THEN Trim(route.serializeQuery.returns)
  ELSE buildQueryString(args.query, route)

\* buildHref that writes the '?' even before an empty query string.
buildHrefBareQuery(route, args) ==
  LET validation  == validatePathParams(route, args.params)
      path        == buildPath(route, args.params)
      queryString == HrefQueryString(route, args)
      fragment    == buildFragment(IF args.fragment.defined THEN args.fragment
                                   ELSE args.contextFragment)
  IN  IF validation.threw
        THEN [threw |-> TRUE, missing |-> validation.missing, href |-> <<>>]
        ELSE [threw |-> FALSE, missing |-> <<>>,
              href |-> << "/" >> \o path \o << "?" >> \o queryString \o fragment]

buildHref(route, args) ==
  LET validation  == validatePathParams(route, args.params)
      path        == buildPath(route, args.params)
      queryString == HrefQueryString(route, args)
      fragment    == buildFragment(IF args.fragment.defined THEN args.fragment
                                   ELSE args.contextFragment)
  IN  IF validation.threw
        THEN [threw |-> TRUE, missing |-> validation.missing, href |-> <<>>]
        ELSE [threw |-> FALSE, missing |-> <<>>,
              href |-> << "/" >> \o path
                       \o (IF queryString # <<>> THEN << "?" >> \o queryString ELSE <<>>)
                       \o fragment]

(***************************************************************************)
(* Generated inputs: strings made of at most n pieces of a set.            *)
(***************************************************************************)
Concats(pieces, n) ==
  UNION {{Flatten(f) : f \in [1..k -> pieces]} : k \in 0..n}

\* A call is [op, ...arguments]; a specification draws it in its Init.
Start(calls) == call \in calls /\ pc = "ready" /\ result = <<>>

Finish(value) == pc' = "done" /\ result' = value /\ UNCHANGED call

Ready(op) == pc = "ready" /\ call.op = op

Done(op) == pc = "done" /\ call.op = op

(***************************************************************************)
(* SpecCompile: pathToRegex on generated patterns.                         *)
(***************************************************************************)
PatternPieces ==
  {<< "a" >>, << "-" >>, << "/" >>, << " " >>,
   << "[", "x", "]" >>, << "[", "y", "]" >>, << "[", "1", "]" >>}

CompileCalls ==
  {[op |-> "pathToRegex", pattern |-> p] : p \in Concats(PatternPieces, MaxPatternParts)}

Compile == Ready("pathToRegex") /\ Finish(pathToRegex(call.pattern))

InitCompile == Start(CompileCalls)

NextCompile == Compile

SpecCompile == InitCompile /\ [][NextCompile]_vars

(***************************************************************************)
(* Claims about the pattern compiler.                                      *)
(***************************************************************************)
IsIdentifier(name) ==
  /\ name # <<>>
  /\ name[1] \in Alpha \cup {"_"}
  /\ \A i \in 2..Len(name) : name[i] \in Alpha \cup Digits \cup {"_"}

HasRepeatedName(names) == \E i, j \in 1..Len(names) : i < j /\ names[i] = names[j]

\* The structural invariants of a pattern, on its trimmed text.
StructuralViolation(p) ==
  LET t == Trim(p)
  IN  \/ \E i \in 1..(Len(t) - 1) : t[i] = "/" /\ t[i + 1] = "/"
      \/ \E i \in 1..Len(t) : t[i] \in WhiteSpace
      \/ t # <<>> /\ (t[1] = "/" \/ t[Len(t)] = "/")

\* Any of the invariants of a RoutePattern is broken.
InvariantViolation(p) ==
  \/ StructuralViolation(p)
  \/ HasRepeatedName(extractParamNames(p))
  \/ \E i \in 1..Len(extractParamNames(p)) : ~IsIdentifier(extractParamNames(p)[i])

ValidPattern(p) == ~InvariantViolation(p) /\ \A i \in 1..Len(p) : p[i] \notin WhiteSpace

\* The values tried for a parameter.
ParamValues ==
  {<<>>, << "a" >>, << "b" >>, << "-" >>, << "/" >>, << "a", "-", "b" >>, << "a", "b" >>}

NameSet(names) == {names[i] : i \in 1..Len(names)}

Assignments(names, values) == [NameSet(names) -> values]

RECURSIVE SubstituteNames(_, _, _)
\* The pattern with every token [name] replaced by the name's value as is.
SubstituteNames(p, names, a) ==
  IF names = <<>> THEN p
  ELSE SubstituteNames(
         Join(Split(p, << "[" >> \o Head(names) \o << "]" >>), a[Head(names)]),
         Tail(names), a)

Substitute(p, a) == SubstituteNames(p, extractParamNames(p), a)

\* The matcher matches the substituted string and its groups, paired in
\* order with paramNames, are the assigned values.
Recovers(compiled, p, a) ==
  LET exec == RegexExec(compiled.regex, Substitute(p, a))
  IN  /\ exec.ok
      /\ Len(exec.groups) = Len(compiled.paramNames)
      /\ \A i \in 1..Len(exec.groups) : exec.groups[i] = a[compiled.paramNames[i]]

RECURSIVE TokenGaps(_, _, _)
\* The names of a segment's tokens and the literal text between each two
\* consecutive tokens.
TokenGaps(segment, lastIndex, afterToken) ==
  LET m == ParamMatch(segment, lastIndex)
  IN  IF ~m.found THEN [names |-> <<>>, gaps |-> <<>>]
      ELSE LET rest == TokenGaps(segment, m.end, TRUE)
           IN  [names |-> << m.name >> \o rest.names,
                gaps  |-> (IF afterToken
                             THEN << SubSeq(segment, lastIndex + 1, m.index) >>
                             ELSE <<>>) \o rest.gaps]

\* Within the segment, consecutive tokens are separated by literal text and
\* no value of its tokens holds a character of that text.
SegmentUnambiguous(segment, a) ==
  LET tg == TokenGaps(segment, 0, FALSE)
      gapChars == UNION {{tg.gaps[i][k] : k \in 1..Len(tg.gaps[i])} : i \in 1..Len(tg.gaps)}
  IN  /\ \A i \in 1..Len(tg.gaps) : tg.gaps[i] # <<>>
      /\ \A i \in 1..Len(tg.names) :
           \A k \in 1..Len(a[tg.names[i]]) : a[tg.names[i]][k] \notin gapChars

PlainValue(v) == v # <<>> /\ \A k \in 1..Len(v) : v[k] # "/"

Unambiguous(p, a) ==
  /\ \A n \in DOMAIN a : PlainValue(a[n])
  /\ \A i \in 1..Len(Split(p, << "/" >>)) : SegmentUnambiguous(Split(p, << "/" >>)[i], a)

\* C2 as stated, for the values most favourable to it (not empty, no '/'):
\* for every valid pattern and every assignment of values, the matcher of
\* pathToRegex matches the substituted string and recovers the values.
C2_RecoversEveryAssignment ==
  Done("pathToRegex") /\ ValidPattern(call.pattern) =>
    /\ ~result.threw
    /\ \A a \in Assignments(result.paramNames, ParamValues) :
         (\A n \in DOMAIN a : PlainValue(a[n])) => Recovers(result, call.pattern, a)

\* C2 (amended): for every valid pattern and every assignment of non-empty
\* values without '/', where in a segment with several tokens consecutive
\* tokens are separated by literal text and no value of that segment holds a
\* character of that text, the matcher of pathToRegex matches the substituted
\* string and its capture groups, in order, are exactly the assigned values.
C2_RecoversUnambiguous ==
  Done("pathToRegex") /\ ValidPattern(call.pattern) =>
    /\ ~result.threw
    /\ \A a \in Assignments(result.paramNames, ParamValues) :
         Unambiguous(call.pattern, a) => Recovers(result, call.pattern, a)

\* Two tokens in one segment, compiled, and recovered from 'ab-b'.
C2_Witness ==
  /\ Done("pathToRegex")
  /\ call.pattern = << "[", "x", "]", "-", "[", "y", "]" >>
  /\ ~result.threw
  /\ LET a == [n \in {<< "x" >>, << "y" >>} |->
                 IF n = << "x" >> THEN << "a", "b" >> ELSE << "b" >>]
     IN  Unambiguous(call.pattern, a) /\ Recovers(result, call.pattern, a)

UrlPieces ==
  {<< "a" >>, << "b" >>, << "/" >>, << "%" >>, << "%", "2", "5" >>, << "?" >>, << "#" >>,
   << "h", "t", "t", "p", ":", "/", "/" >>}

UrlInputs ==
  {[kind |-> "string", s |-> u] : u \in Concats(UrlPieces, MaxUrlParts)}
    \cup {[kind |-> "null", s |-> <<>>], [kind |-> "other", s |-> <<>>]}

Table(paths) == MapSeq(paths, PlainRoute)

RouteTables ==
  {Table(<< << "[", "x", "]" >>, << "a" >> >>),
   Table(<< << "a" >>, << "[", "x", "]" >> >>),
   Table(<< << "a", "/", "[", "x", "]" >>, << "[", "x", "]", "/", "[", "y", "]" >>,
            << "[", "x", "]" >> >>),
   Table(<< << "b" >>, <<>> >>),
   Table(<< << "a" >>, << "a", "/", "/", "b" >> >>),
   Table(<<>>)}

FindCalls ==
  {[op |-> "findRoute", urlString |-> u, routes |-> t] : u \in UrlInputs, t \in RouteTables}

Find == Ready("findRoute") /\ Finish(findRoute(call.urlString, call.routes))

InitFind == Start(FindCalls)

NextFind == Find

SpecFind == InitFind /\ [][NextFind]_vars

(***************************************************************************)
(* Claims about the route matcher.                                         *)
(***************************************************************************)
\* The URL's path as findRoute matches it, when the input has one.
UrlPath(urlString) ==
  LET relativePart == getRelativePart(urlString)
      urlObj == NewUrlRelative(relativePart.s)
  IN  IF ~relativePart.defined \/ urlObj.failed THEN [defined |-> FALSE, s |-> <<>>]
      ELSE LET path == DecodeURIComponent(SkipSlashes(urlObj.pathname))
           IN  [defined |-> ~path.threw, s |-> path.s]

\* The route's pattern matches the path.
PatternMatches(route, path) ==
  /\ ~pathToRegex(route.path).threw
  /\ RegexExec(pathToRegex(route.path).regex, path).ok

MatchingRoutes(routes, urlString) ==
  {i \in 1..Len(routes) :
     UrlPath(urlString).defined /\ PatternMatches(routes[i], UrlPath(urlString).s)}

\* C3: findRoute returns the match of the first route, in table order, whose
\* pattern matches the URL's path, whatever the later routes that match too;
\* a result without a match means that no route's pattern matches.
C3_FirstMatchWins ==
  Done("findRoute") /\ ~result.threw =>
    LET matching == MatchingRoutes(call.routes, call.urlString)
    IN  /\ result.found =>
             result.index \in matching /\ \A j \in matching : result.index <= j
        /\ ~result.found => matching = {}

\* '/a' against the table ['[x]', 'a']: both match, the first is returned.
C3_Witness ==
  /\ Done("findRoute")
  /\ call.urlString = [kind |-> "string", s |-> << "/", "a" >>]
  /\ MatchingRoutes(call.routes, call.urlString) = {1, 2}
  /\ call.routes[2].path = << "a" >>
  /\ result.found /\ result.index = 1

TableIsValid(routes) == \A i \in 1..Len(routes) : ValidPattern(routes[i].path)

\* C4 as stated: for every URL input and every table of valid patterns,
\* findRoute never throws and returns absent exactly when the input is not
\* resolvable to a URL or no route's pattern matches the URL's path.
C4_MissIsAValue ==
  Done("findRoute") /\ TableIsValid(call.routes) =>
    /\ ~result.threw
    /\ ~result.found <=>
         \/ ~getRelativePart(call.urlString).defined
         \/ MatchingRoutes(call.routes, call.urlString) = {}

(***************************************************************************)
(* SpecTrip: an href is built with buildHref and then resolved with        *)
(* findRoute against the table holding only the route it was built for.    *)
(***************************************************************************)
TripPatterns ==
  {<< "p", "/", "[", "i", "d", "]" >>,
   << "[", "x", "]" >>,
   << "[", "x", "]", "/", "[", "y", "]" >>,
   << "[", "x", "]", "-", "[", "y", "]" >>}

TripValues ==
  {<<>>, << "a" >>, << "b", " ", "c" >>, << "%" >>, << "%", "4", "1" >>, << "a", "-", "b" >>,
   << "?" >>, << "." >>}

TripQueries ==
  {NoObject,
   Object(<< [k |-> << "k" >>, v |-> VStr(<< "v" >>)] >>),
   Object(<< [k |-> << "k" >>, v |-> VArr(<< VStr(<< "b" >>), VStr(<< "a" >>) >>)] >>),
   Object(<< [k |-> << "q" >>, v |-> VStr(<< "a", " ", "b" >>)] >>)}

\* The params object that gives each name, in order, its assigned value.
ParamsOf(names, a) == Object([i \in 1..Len(names) |-> [k |-> names[i], v |-> Defined(a[names[i]])]])

TripCalls ==
  UNION {{[op |-> "roundTrip", route |-> PlainRoute(p), assigned |-> a,
           args |-> HrefArgs(ParamsOf(extractParamNames(p), a), q, Undefined, Undefined)] :
            q \in TripQueries, a \in Assignments(extractParamNames(p), TripValues)} :
         p \in TripPatterns}

Build ==
  /\ Ready("roundTrip")
  /\ pc' = "built"
  /\ result' = buildHref(call.route, call.args)
  /\ UNCHANGED call

Resolve ==
  /\ pc = "built" /\ call.op = "roundTrip"
  /\ ~result.threw
  /\ Finish(findRoute([kind |-> "string", s |-> result.href], << call.route >>))

InitTrip == Start(TripCalls)

NextTrip == Build \/ Resolve

SpecTrip == InitTrip /\ [][NextTrip]_vars

\* The resolved params are the assigned ones.
SameParams(entries, a) ==
  /\ Keys(entries) = DOMAIN a
  /\ \A n \in DOMAIN a : Get(entries, n) = a[n]

\* C1 as stated, for the values most favourable to it (not empty, not a dot
\* segment): for a route whose pattern repeats no parameter, an assignment of
\* values free of '/' and any query, findRoute on the href of buildHref,
\* against the table [route], returns a match whose params are the assignment.
C1_RoundTrip ==
  /\ Done("roundTrip")
  /\ ~HasRepeatedName(extractParamNames(call.route.path))
  /\ \A n \in DOMAIN call.assigned :
       PlainValue(call.assigned[n]) /\ call.assigned[n] # << "." >>
  => ~result.threw /\ result.found /\ SameParams(result.params, call.assigned)

(***************************************************************************)
(* SpecValues: QueryParamsBase.values on generated raw mappings.           *)
(***************************************************************************)
RawStrings ==
  {<<>>, << " " >>, << "a" >>, << " ", "a" >>, << "a", " " >>, << "b" >>, << "a", " ", "b" >>}

SeqsUpTo(set, n) == UNION {[1..k -> set] : k \in 0..n}

\* The entries a key of a raw mapping can hold: a string or a list of strings.
RawEntries ==
  {[isArray |-> FALSE, items |-> << v >>] : v \in RawStrings}
    \cup {[isArray |-> TRUE, items |-> vs] : vs \in SeqsUpTo(RawStrings, MaxRawValues)}

ValuesCalls ==
  {[op |-> "values", params |-> [key \in {<< "k" >>} |-> e], key |-> k] :
     e \in RawEntries, k \in {<< "k" >>, << "j" >>}}

Values == Ready("values") /\ Finish(ReaderValues(call.params, call.key))

InitValues == Start(ValuesCalls)

NextValues == Values

SpecValues == InitValues /\ [][NextValues]_vars

\* t is s without its surrounding white space.
IsTrimOf(t, s) ==
  /\ t = <<>> \/ (t[1] \notin WhiteSpace /\ t[Len(t)] \notin WhiteSpace)
  /\ \E lead \in 0..Len(s) :
       /\ lead + Len(t) <= Len(s)
       /\ t = SubSeq(s, lead + 1, lead + Len(t))
       /\ \A i \in (1..lead) \cup ((lead + Len(t) + 1)..Len(s)) : s[i] \in WhiteSpace

\* The position in raw of the first value whose trimmed form is t.
FirstOccurrence(raw, t) == CHOOSE i \in 1..Len(raw) :
  IsTrimOf(t, raw[i]) /\ \A j \in 1..(i - 1) : ~IsTrimOf(t, raw[j])

\* C6: values(key) returns the key's raw values trimmed of surrounding white
\* space, without the empty ones and without duplicates, in the order of
\* their first occurrence; an absent key gives the empty list.
C6_ValuesNormalised ==
  Done("values") =>
    LET raw == IF call.key \in DOMAIN call.params THEN call.params[call.key].items ELSE <<>>
    IN  /\ \A i \in 1..Len(result) :
             result[i] # <<>> /\ \E j \in 1..Len(raw) : IsTrimOf(result[i], raw[j])
        /\ \A j \in 1..Len(raw) :
             (\A c \in 1..Len(raw[j]) : raw[j][c] \in WhiteSpace)
               \/ \E i \in 1..Len(result) : IsTrimOf(result[i], raw[j])
        /\ \A i, j \in 1..Len(result) :
             i < j => /\ result[i] # result[j]
                      /\ FirstOccurrence(raw, result[i]) < FirstOccurrence(raw, result[j])
        /\ call.key \notin DOMAIN call.params => result = <<>>

\* [' a', 'b', 'a '] gives ['a', 'b'].
C6_Witness ==
  /\ Done("values")
  /\ call.key = << "k" >>
  /\ call.params[<< "k" >>].items = << << " ", "a" >>, << "b" >>, << "a", " " >> >>
  /\ result = << << "a" >>, << "b" >> >>

(***************************************************************************)
(* SpecEncode: the value encoder on generated inputs: encodeReservedChars  *)
(* on short strings, encodeKeyValue with a custom encoder that returns a   *)
(* generated string or throws, encodeKeyValues on generated arrays.        *)
(***************************************************************************)
\* RFC 3986: gen-delims and sub-delims.
Rfc3986Reserved ==
  {":", "/", "?", "#", "[", "]", "@", "!", "$", "&", "'", "(", ")", "*", "+", ",", ";", "="}

ReservedInputChars ==
  Rfc3986Reserved \cup {" ", "\t", "%", "a", "Z", "0", "-", ".", "_", "~"}

ReservedCalls ==
  {[op |-> "encodeReservedChars", input |-> s] : s \in SeqsUpTo(ReservedInputChars, MaxInputLen)}

EncoderPieces ==
  {<< " " >>, << "\t" >>, << "\n" >>, << "#" >>, << "&" >>, << "=" >>, << "?" >>, << "/" >>,
   << ";" >>, << ":" >>, << "@" >>, << "$" >>, << "," >>, << "%" >>, << "%", "4" >>,
   << "%", "4", "F" >>, << "g" >>, << "a" >>}

\* What the custom encoder does with the value: it throws or returns a string.
EncoderOutcomes ==
  {[threw |-> TRUE, s |-> <<>>]}
    \cup {[threw |-> FALSE, s |-> s] : s \in Concats(EncoderPieces, MaxEncoderParts)}

PairKeys == {<< "k" >>, << "a", "=", "b", "&" >>}

PairValue == VStr(<< "v" >>)

PairCalls ==
  {[op |-> "encodeKeyValue", key |-> k, value |-> PairValue,
    route |-> Route(<< "p" >>, <<>>, Encoder([v \in {PairValue} |-> o]), NoSerializer)] :
     k \in PairKeys, o \in EncoderOutcomes}

ElementValues ==
  {VNull, VStr(<<>>), VStr(<< "a" >>), VStr(<< "b" >>), VStr(<< "a", " ", "b" >>),
   VNum(<< "1", "0" >>), VPlain(<< "{", "}" >>, TRUE), VCustom(<< "a" >>, TRUE),
   VCustom(<<>>, FALSE)}

ArrayCalls ==
  {[op |-> "encodeKeyValues", key |-> << "k" >>, value |-> VArr(items),
    route |-> PlainRoute(<< "p" >>)] : items \in SeqsUpTo(ElementValues, MaxElements)}

EncodeReserved == Ready("encodeReservedChars") /\ Finish(encodeReservedChars(call.input))

EncodePair ==
  Ready("encodeKeyValue") /\ Finish(encodeKeyValue(call.key, call.value, call.route))

EncodeValues ==
  Ready("encodeKeyValues") /\ Finish(encodeKeyValues(call.key, call.value, call.route))

InitEncode == Start(ReservedCalls \cup PairCalls \cup ArrayCalls)

NextEncode == EncodeReserved \/ EncodePair \/ EncodeValues

SpecEncode == InitEncode /\ [][NextEncode]_vars

(***************************************************************************)
(* Claims about the value encoder.                                         *)
(***************************************************************************)
Count(s, c) == Cardinality({i \in 1..Len(s) : s[i] = c})

CharsOf(s) == {s[i] : i \in 1..Len(s)}

\* The non-null elements of an array.
NonNull(items) ==
  LET IsNotNull(v) == v.t # "null"
  IN  Filter(items, IsNotNull)

SafeStrings(items) == {toSafeString(items[i]) : i \in 1..Len(items)}

\* The strings of a set in ascending order.
Ascending(strings) ==
  CHOOSE q \in [1..Cardinality(strings) -> strings] :
    \A i, j \in 1..Cardinality(strings) : i < j => StrLess(q[i], q[j])

\* The key=value pairs the claim describes for a set of safe-strings.
ClaimedPairs(key, strings) ==
  [i \in 1..Cardinality(strings) |->
     EncodeURIComponent(key) \o << "=" >>
       \o encodeReservedChars(normalizePercentEscapes(Ascending(strings)[i]))]

\* C7 as stated, for the arrays most favourable to it (no plain object among
\* the elements): without a serializer and a custom encoder, an array-valued
\* entry gives exactly one key=value pair per distinct safe-string among its
\* non-null elements, in ascending order of the safe-strings (whether or not
\* the empty safe-string counts as one of them).
C7_OnePairPerSafeString ==
  /\ Done("encodeKeyValues")
  /\ call.value.t = "array"
  /\ \A i \in 1..Len(call.value.items) : call.value.items[i].t # "plain"
  => LET safes == SafeStrings(NonNull(call.value.items))
     IN  \/ result = ClaimedPairs(call.key, safes)
         \/ result = ClaimedPairs(call.key, safes \ {<<>>})

\* The part of a pair after its first '='.
ValuePart(pair) == SubSeq(pair, FirstIndexIn(pair, {"="}) + 1, Len(pair))

\* C8: whatever string the route's encodeQueryValue returns, the value part
\* of the pair encodeKeyValue emits holds no white space, none of the
\* characters # & = ? / ; : @ $ , and only '%' that two hexadecimal digits
\* follow, so that the pair holds exactly one '=' and no '&'; no pair is
\* emitted exactly when the encoder returns the empty string or throws.
C8_SafetyPass ==
  Done("encodeKeyValue") /\ call.route.encodeQueryValue.defined =>
    LET outcome == call.route.encodeQueryValue.table[call.value]
    IN  /\ result = <<>> <=> (outcome.threw \/ outcome.s = <<>>)
        /\ result # <<>> =>
             /\ CharsOf(ValuePart(result))
                  \cap (WhiteSpace \cup {"#", "&", "=", "?", "/", ";", ":", "@", "$", ","}) = {}
             /\ \A i \in 1..Len(ValuePart(result)) :
                  ValuePart(result)[i] = "%" =>
                    /\ i + 2 <= Len(ValuePart(result))
                    /\ ValuePart(result)[i + 1] \in HexChars
                    /\ ValuePart(result)[i + 2] \in HexChars
             /\ Count(result, "=") = 1
             /\ Count(result, "&") = 0

\* The encoder returned '&%', the pair is a%3Db%26=%26%25.
C8_Witness ==
  /\ Done("encodeKeyValue")
  /\ call.key = << "a", "=", "b", "&" >>
  /\ call.route.encodeQueryValue.table[call.value] = [threw |-> FALSE, s |-> << "&", "%" >>]
  /\ ValuePart(result) = << "%", "2", "6", "%", "2", "5" >>

\* What the claim says of a string of reserved and unreserved characters.
ClaimedEncoding(input) ==
  Flatten([i \in 1..Len(input) |->
             IF input[i] \in Rfc3986Reserved \cup {" "} THEN PercentOf(input[i])
             ELSE << input[i] >>])

\* C9 as stated: encodeReservedChars percent-encodes the space and every
\* reserved character of RFC 3986 and leaves the unreserved ones unchanged.
C9_EncodesRfc3986Reserved ==
  /\ Done("encodeReservedChars")
  /\ CharsOf(call.input) \subseteq Rfc3986Reserved \cup {" "} \cup UriUnreserved
  => result = ClaimedEncoding(call.input)

(***************************************************************************)
(* SpecHref: buildHref for routes with and without a custom serializer.    *)
(***************************************************************************)
SerializerPieces ==
  {<< " " >>, << "\n" >>, << "a", "=", "1" >>, << "&" >>, << "b", "=", "%" >>, << "?" >>,
   << "#", "x" >>}

HrefQuery == Object(<< [k |-> << "k" >>, v |-> VStr(<< "v" >>)] >>)

\* A custom encoder that turns the value of HrefQuery into 'E'.
HrefEncoder == Encoder([v \in {VStr(<< "v" >>)} |-> [threw |-> FALSE, s |-> << "E" >>]])

HrefSerializers ==
  {NoSerializer} \cup {Serializer(s) : s \in Concats(SerializerPieces, MaxSerializerParts)}

HrefPaths == {<< "p" >>, << "u", "/", "[", "i", "d", "]" >>}

HrefParams ==
  {NoObject, Object(<< [k |-> << "i", "d" >>, v |-> Defined(<< "7", " " >>)] >>)}

HrefFragments == {Undefined, Defined(<< "f" >>)}

HrefCalls ==
  {[op |-> "buildHref",
    route |-> Route(p, <<>>, e, sq),
    args |-> HrefArgs(ps, q, f, Undefined)] :
     p \in HrefPaths, e \in {NoEncoder, HrefEncoder}, sq \in HrefSerializers,
     ps \in HrefParams, q \in {NoObject, HrefQuery}, f \in HrefFragments}

BuildHref == Ready("buildHref") /\ Finish(buildHref(call.route, call.args))

InitHref == Start(HrefCalls)

NextHref == BuildHref

SpecHref == InitHref /\ [][NextHref]_vars

\* C10: when the route defines serializeQuery and a query object is given,
\* the query part of the href is exactly the string the serializer returned,
\* trimmed of surrounding white space ('?' and that string between the path
\* and the fragment, nothing when it is empty); the custom encoder and the
\* default pipeline are not applied to it.
C10_SerializerVerbatim ==
  /\ Done("buildHref")
  /\ call.route.serializeQuery.defined
  /\ call.args.query.defined
  /\ ~result.threw
  => \E from, to \in 0..Len(call.route.serializeQuery.returns) :
       LET trimmed == SubSeq(call.route.serializeQuery.returns, from + 1, to)
       IN  /\ IsTrimOf(trimmed, call.route.serializeQuery.returns)
           /\ result.href = << "/" >> \o buildPath(call.route, call.args.params)
                              \o (IF trimmed = <<>> THEN <<>> ELSE << "?" >> \o trimmed)
                              \o buildFragment(call.args.fragment)

\* The serializer returned ' b=%&' on a route with a custom encoder.
C10_Witness ==
  /\ Done("buildHref")
  /\ call.route.path = << "p" >>
  /\ call.route.encodeQueryValue.defined
  /\ call.args.query.defined
  /\ call.route.serializeQuery = Serializer(<< " ", "b", "=", "%", "&" >>)
  /\ call.args.fragment = Defined(<< "f" >>)
  /\ result.href = << "/", "p", "?", "b", "=", "%", "&", "#", "f" >>

(***************************************************************************)
(* SpecBuild: buildHref, buildPath and buildFragment on routes whose        *)
(* patterns repeat a parameter or hold a '?' or a '#', with params that    *)
(* miss a name, hold null or hold unused keys.                             *)
(***************************************************************************)
BuildPaths ==
  {<< "p" >>,
   << "u", "/", "[", "i", "d", "]" >>,
   << "r", "/", "[", "y", "]", "/", "s", "-", "[", "y", "]" >>,
   << "[", "x", "]", "-", "[", "y", "]" >>,
   << "a", "?", "b" >>,
   << "p", "#" >>}

Entry(k, v) == [k |-> k, v |-> v]

BuildParams ==
  {NoObject,
   Object(<<>>),
   Object(<< Entry(<< "i", "d" >>, Defined(<< "7", " " >>)) >>),
   Object(<< Entry(<< "i", "d" >>, Undefined) >>),
   Object(<< Entry(<< "y" >>, Defined(<< "2", "0", "2", "5" >>)) >>),
   Object(<< Entry(<< "x" >>, Defined(<< "a", "/", "b" >>)),
             Entry(<< "y" >>, Defined(<< "[", "y", "]" >>)) >>),
   Object(<< Entry(<< "y" >>, Defined(<< "b" >>)), Entry(<< "x" >>, Defined(<<>>)) >>),
   Object(<< Entry(<< "x" >>, Defined(<< "a" >>)) >>),
   Object(<< Entry(<< "z" >>, Defined(<< "q" >>)), Entry(<< "i", "d" >>, Defined(<< "7" >>)) >>),
   Object(<< Entry(<< "i", "d" >>, Defined(<< "?" >>)), Entry(<< "y" >>, Defined(<< "1" >>)),
             Entry(<< "x" >>, Defined(<< "[", "z", "]" >>)), Entry(<< "z" >>, Undefined) >>)}

BuildQueries ==
  {NoObject,
   HrefQuery,
   Object(<< Entry(<< "k" >>, VArr(<< VStr(<<>>) >>)) >>),
   Object(<< Entry(<< "k" >>, VArr(<< VStr(<< "b" >>), VStr(<<>>) >>)),
             Entry(<< "j" >>, VNull) >>)}

BuildSerializers ==
  {NoSerializer, Serializer(<<>>), Serializer(<< " ", "\n" >>), Serializer(<< "a", "=", "1" >>),
   Serializer(<< " ", "a", "=", "1", " " >>), Serializer(<< "?" >>), Serializer(<< "a", "#" >>)}

BuildFragments ==
  {Undefined, Defined(<<>>), Defined(<< "f" >>), Defined(<< "a", "?" >>),
   Defined(<< "m", "y", " ", "s" >>), Defined(<< "m", "y", "%", "2", "0", "s" >>)}

BuildContextFragments == {Undefined, Defined(<< "c" >>)}

BuildHrefCalls ==
  {[op |-> "buildHref",
    route |-> Route(p, <<>>, NoEncoder, sq),
    args |-> HrefArgs(ps, q, f, cf)] :
     p \in BuildPaths, sq \in BuildSerializers, ps \in BuildParams, q \in BuildQueries,
     f \in BuildFragments, cf \in BuildContextFragments}

BuildPathCalls ==
  {[op |-> "buildPath", route |-> PlainRoute(p), params |-> ps] :
     p \in BuildPaths, ps \in BuildParams}

FragmentPieces ==
  {<< "a" >>, << " " >>, << "%" >>, << "%", "2", "0" >>, << "%", "2", "f" >>, << "%", "4", "1" >>,
   << "#" >>, << "~" >>}

BuildFragmentCalls ==
  {[op |-> "buildFragment", fragment |-> f] :
     f \in {Undefined} \cup {Defined(t) : t \in Concats(FragmentPieces, MaxFragmentParts)}}

BuildPath == Ready("buildPath") /\ Finish(buildPath(call.route, call.params))

BuildFragment == Ready("buildFragment") /\ Finish(buildFragment(call.fragment))

InitBuild == Start(BuildHrefCalls \cup BuildPathCalls \cup BuildFragmentCalls)

NextBuild == BuildHref \/ BuildPath \/ BuildFragment

SpecBuild == InitBuild /\ [][NextBuild]_vars

(***************************************************************************)
(* Claims about the href builder.                                          *)
(***************************************************************************)
AllWhiteSpace(s) == \A i \in 1..Len(s) : s[i] \in WhiteSpace

\* The name is a key of params that holds a string.
Provided(params, name) ==
  \E i \in 1..Len(params.entries) : params.entries[i].k = name /\ params.entries[i].v.defined

\* The names of the pattern that params does not provide, in pattern order.
MissingNames(route, params) ==
  LET NotProvided(name) == ~Provided(params, name)
  IN  Filter(extractParamNames(route.path), NotProvided)

\* params without the keys that name no parameter of the pattern.
WithoutUnusedKeys(route, params) ==
  LET IsUsed(e) == e.k \in NameSet(extractParamNames(route.path))
  IN  [params EXCEPT !.entries = Filter(params.entries, IsUsed)]

\* C11 as stated: when serializeQuery returns an empty or all-white-space
\* string, the href of buildHref holds no '?' at all.
C11_NoQuestionMark ==
  /\ Done("buildHref")
  /\ call.route.serializeQuery.defined
  /\ AllWhiteSpace(call.route.serializeQuery.returns)
  /\ ~result.threw
  => "?" \notin CharsOf(result.href)

\* C11 (amended): when serializeQuery returns an empty or all-white-space
\* string, buildHref adds no '?': the href is '/' + path + fragment and holds
\* a '?' only where the literal text of the route's pattern has one.
C11_NoQuerySegment ==
  /\ Done("buildHref")
  /\ call.route.serializeQuery.defined
  /\ AllWhiteSpace(call.route.serializeQuery.returns)
  /\ ~result.threw
  => /\ result.href = << "/" >> \o buildPath(call.route, call.args.params)
                        \o buildFragment(IF call.args.fragment.defined THEN call.args.fragment
                                         ELSE call.args.contextFragment)
     /\ Count(result.href, "?") = Count(call.route.path, "?")

\* The serializer returned ' \n' for a query that was given: '/p#f'.
C11_Witness ==
  /\ Done("buildHref")
  /\ call.route.path = << "p" >>
  /\ call.route.serializeQuery = Serializer(<< " ", "\n" >>)
  /\ call.args.query.defined
  /\ call.args.fragment = Defined(<< "f" >>)
  /\ result.href = << "/", "p", "#", "f" >>

\* C12: buildHref fails, producing no href, exactly when a name of the
\* route's pattern is not a key of params or holds null; the failure names
\* every missing parameter; keys of params that name no parameter of the
\* pattern cause no failure and leave the built href as it is without them.
C12_MissingParamsFail ==
  Done("buildHref") =>
    LET missing == MissingNames(call.route, call.args.params)
    IN  /\ result.threw <=> missing # <<>>
        /\ result.threw => result.href = <<>> /\ result.missing = missing
        /\ ~result.threw =>
             result = buildHref(call.route,
                        [call.args EXCEPT !.params = WithoutUnusedKeys(call.route, @)])

\* '[x]-[y]' with params { id: '?', y: '1', x: '[z]', z: null }: nothing is
\* missing and the unused keys id and z change nothing; with { x: 'a' } the
\* failure names y.
C12_Witness ==
  /\ Done("buildHref")
  /\ call.route.path = << "[", "x", "]", "-", "[", "y", "]" >>
  /\ \/ Keys(call.args.params.entries) = {<< "x" >>}
        /\ result.threw /\ result.missing = << << "y" >> >>
     \/ Keys(call.args.params.entries) = {<< "i", "d" >>, << "x" >>, << "y" >>, << "z" >>}
        /\ ~result.threw

RECURSIVE SubstitutedSegment(_, _, _)
\* The segment, from lastIndex on, with each token whose name params
\* provides replaced by the percent-encoded value.
SubstitutedSegment(segment, lastIndex, params) ==
  LET m == ParamMatch(segment, lastIndex)
  IN  IF ~m.found THEN SubSeq(segment, lastIndex + 1, Len(segment))
      ELSE SubSeq(segment, lastIndex + 1, m.index)
           \o (IF Provided(params, m.name)
                 THEN EncodeURIComponent(Get(params.entries, m.name).s)
                 ELSE SubSeq(segment, m.index + 1, m.end))
           \o SubstitutedSegment(segment, m.end, params)

SubstitutedPath(path, params) ==
  LET segments == Split(path, << "/" >>)
  IN  Join([i \in 1..Len(segments) |-> SubstitutedSegment(segments[i], 0, params)], << "/" >>)

\* C13: buildPath replaces every occurrence of each [name] token of the
\* pattern by the percent-encoded value of params[name], a repeated
\* parameter at all its occurrences; when the validation succeeds no token
\* of the pattern is left in the built path.
C13_EveryOccurrenceReplaced ==
  /\ Done("buildPath")
  /\ \A i \in 1..Len(call.params.entries) : call.params.entries[i].v.defined
  => /\ result = SubstitutedPath(call.route.path, call.params)
     /\ ~validatePathParams(call.route, call.params).threw =>
          \A i \in 1..Len(extractParamNames(call.route.path)) :
            ~Includes(result, << "[" >> \o extractParamNames(call.route.path)[i] \o << "]" >>)

\* 'r/[y]/s-[y]' with { y: '2025' } gives 'r/2025/s-2025'.
C13_Witness ==
  /\ Done("buildPath")
  /\ call.route.path = << "r", "/", "[", "y", "]", "/", "s", "-", "[", "y", "]" >>
  /\ result = << "r", "/", "2", "0", "2", "5", "/", "s", "-", "2", "0", "2", "5" >>

\* Percent-decoding the text and encoding the result again gives the text
\* back, but for the case of its letters.
Reproduces(text) ==
  /\ ~DecodeURIComponent(text).threw
  /\ ToLowerCase(EncodeURIComponent(DecodeURIComponent(text).s)) = ToLowerCase(text)

\* C14: buildFragment gives '' for an absent or empty fragment; for another
\* one '#' and the fragment unchanged when decoding and re-encoding it
\* reproduces it (case-insensitively), else '#' and its percent-encoding.
C14_FragmentProbe ==
  Done("buildFragment") =>
    IF ~call.fragment.defined \/ call.fragment.s = <<>> THEN result = <<>>
    ELSE IF Reproduces(call.fragment.s) THEN result = << "#" >> \o call.fragment.s
    ELSE result = << "#" >> \o EncodeURIComponent(call.fragment.s)

\* 'a%2fa' is kept as it is; 'a a' becomes '#a%20a', 'a%' becomes '#a%25'.
C14_Witness ==
  /\ Done("buildFragment")
  /\ \/ call.fragment.s = << "a", "%", "2", "f", "a" >>
        /\ result = << "#", "a", "%", "2", "f", "a" >>
     \/ call.fragment.s = << "a", " ", "a" >>
        /\ result = << "#", "a", "%", "2", "0", "a" >>

\* The href the claim describes: '/' + path, '?' + query when the query
\* string is not empty, '#' + fragment when the fragment is not empty, the
\* fragment argument taken before the fragment of the context.
ShapedHref(route, args) ==
  LET queryString == HrefQueryString(route, args)
      fragment    == buildFragment(IF args.fragment.defined THEN args.fragment
                                   ELSE args.contextFragment)
  IN  << "/" >> \o buildPath(route, args.params)
        \o (IF queryString = <<>> THEN <<>> ELSE << "?" >> \o queryString)
        \o (IF Len(fragment) <= 1 THEN <<>> ELSE fragment)

EndsWithBare(s) == s[Len(s)] \in {"?", "#"}

\* C15 as stated: every href of buildHref is '/' + path, then '?' + query
\* only for a non-empty query string, then '#' + fragment only for a
\* non-empty fragment; it begins with '/' and never ends with '?' or '#'.
C15_ShapeNeverBare ==
  Done("buildHref") /\ ~result.threw =>
    /\ result.href = ShapedHref(call.route, call.args)
    /\ result.href[1] = "/"
    /\ ~EndsWithBare(result.href)

\* C15 (amended): every href of buildHref is '/' + path, then '?' + query
\* only for a non-empty query string, then '#' + fragment only for a
\* non-empty fragment (the fragment argument before the context's); it
\* begins with '/', the '?' and the '#' that buildHref writes are followed by
\* at least one character, and the href ends with '?' or '#' only when the
\* pattern's literal text or the string of the custom serializer ends so.
C15_Shape ==
  Done("buildHref") /\ ~result.threw =>
    /\ result.href = ShapedHref(call.route, call.args)
    /\ result.href[1] = "/"
    /\ EndsWithBare(result.href) =>
         \/ call.route.path # <<>> /\ EndsWithBare(call.route.path)
         \/ /\ call.route.serializeQuery.defined
            /\ Trim(call.route.serializeQuery.returns) # <<>>
            /\ EndsWithBare(Trim(call.route.serializeQuery.returns))

\* An empty fragment argument wins over the context's fragment, and the
\* empty default query string leaves no '?': '/u/7%20'.
C15_Witness ==
  /\ Done("buildHref")
  /\ call.route.path = << "u", "/", "[", "i", "d", "]" >>
  /\ ~call.route.serializeQuery.defined
  /\ call.args.query = Object(<< Entry(<< "k" >>, VArr(<< VStr(<<>>) >>)) >>)
  /\ call.args.fragment = Defined(<<>>)
  /\ call.args.contextFragment = Defined(<< "c" >>)
  /\ result.href = << "/", "u", "/", "7", "%", "2", "0" >>

(***************************************************************************)
(* Route trees and breadcrumbs (serialize-query.ts 109-162).               *)
(* A route of a table carries, besides the fields of Route, its optional   *)
(* parentPath and whether it defines title and breadcrumb.  What a label   *)
(* function returns is not computed: a label is the record of the call,    *)
(* [path, by, params, query, context], by = "empty" being getEmptyString,  *)
(* which returns '' whatever it is given.                                  *)
(***************************************************************************)
TreeRoute(path, parentPath, title, breadcrumb) ==
  [path |-> path, getQuery |-> <<>>, encodeQueryValue |-> NoEncoder,
   serializeQuery |-> NoSerializer,
   parentPath |-> parentPath, title |-> title, breadcrumb |-> breadcrumb]

\* route.parentPath is truthy: defined and not ''.
HasParentPath(route) == route.parentPath.defined /\ route.parentPath.s # <<>>

\* routes.find((r) => r.path === path): the first position, 0 for undefined.
FindByPath(routes, path) ==
  IF \E i \in 1..Len(routes) : routes[i].path = path
    THEN CHOOSE i \in 1..Len(routes) :
           routes[i].path = path /\ \A j \in 1..(i - 1) : routes[j].path # path
    ELSE 0

\* routeMap.get(path) after the first loop: the node of the last route set
\* under that path, 0 for undefined.  The node of routes[i] is i.
RouteMapGet(routes, path) ==
  IF \E i \in 1..Len(routes) : routes[i].path = path
    THEN CHOOSE i \in 1..Len(routes) :
           routes[i].path = path /\ \A j \in (i + 1)..Len(routes) : routes[j].path # path
    ELSE 0

RECURSIVE LinkChildren(_, _, _)
\* The second loop of buildNestedRoutes, from position j on.
LinkChildren(routes, j, children) ==
  IF j > Len(routes) THEN children
  ELSE LET parent == RouteMapGet(routes, routes[j].parentPath.s)
           child  == RouteMapGet(routes, routes[j].path)
       IN  IF HasParentPath(routes[j]) /\ parent # 0 /\ child # 0
             THEN LinkChildren(routes, j + 1,
                    [children EXCEPT ![parent] = Append(@, child)])
             ELSE LinkChildren(routes, j + 1, children)

\* buildNestedRoutes: the root nodes in order and every node's children.
buildNestedRoutes(routes) ==
  LET IsRoot(i) == ~HasParentPath(routes[i])
  IN  [roots |-> Filter([i \in 1..Len(routes) |-> i], IsRoot),
       children |-> LinkChildren(routes, 1, [i \in 1..Len(routes) |-> <<>>])]

maxDepth == 10

EmptyContext == Object(<<>>)

\* The label of routes[current]: breadcrumb ?? title ?? getEmptyString,
\* called with the matched route's params and query.
LabelOf(routes, current, matched, context) ==
  [path |-> routes[current].path,
   by |-> IF routes[current].breadcrumb THEN "breadcrumb"
          ELSE IF routes[current].title THEN "title" ELSE "empty",
   params |-> matched.params, query |-> matched.query,
   context |-> IF current = matched.index THEN context ELSE EmptyContext]

\* currentRoute.parentPath ? routes.find(...) : undefined, for every position
\* of the table: the position of the parent, 0 for undefined.
ParentIndex(routes) ==
  [i \in 1..Len(routes) |->
     IF HasParentPath(routes[i]) THEN FindByPath(routes, routes[i].parentPath.s) ELSE 0]

RECURSIVE WalkNoCycleTest(_, _, _, _, _, _, _)
\* Walk without the test of the visited paths.
WalkNoCycleTest(routes, current, visited, depth, trail, matched, context) ==
  IF current = 0 \/ depth >= maxDepth THEN trail
  ELSE WalkNoCycleTest(routes,
         ParentIndex(routes)[current],
         visited \cup {routes[current].path}, depth + 1,
         << LabelOf(routes, current, matched, context) >> \o trail, matched, context)

RECURSIVE WalkContextToAll(_, _, _, _, _, _, _)
\* Walk that hands the caller's context to every label function.
WalkContextToAll(routes, current, visited, depth, trail, matched, context) ==
  IF current = 0 \/ depth >= maxDepth THEN trail
  ELSE IF routes[current].path \in visited THEN trail
  ELSE WalkContextToAll(routes,
         ParentIndex(routes)[current],
         visited \cup {routes[current].path}, depth + 1,
         << [LabelOf(routes, current, matched, context) EXCEPT !.context = context] >>
           \o trail, matched, context)

RECURSIVE Walk(_, _, _, _, _, _, _)
\* The while loop of buildBreadcrumbTrail; current = 0 is undefined.
Walk(routes, current, visited, depth, trail, matched, context) ==
  IF current = 0 \/ depth >= maxDepth THEN trail
  ELSE IF routes[current].path \in visited THEN trail
  ELSE Walk(routes,
         ParentIndex(routes)[current],
         visited \cup {routes[current].path}, depth + 1,
         << LabelOf(routes, current, matched, context) >> \o trail, matched, context)

\* buildBreadcrumbTrail after matched = findRoute(url, routes).
TrailFrom(matched, routes, context) ==
  IF matched.threw THEN [threw |-> TRUE, error |-> matched.error, trail |-> <<>>]
  ELSE IF ~matched.found THEN [threw |-> FALSE, error |-> "", trail |-> <<>>]
  ELSE [threw |-> FALSE, error |-> "",
        trail |-> Walk(routes, matched.index, {}, 0, <<>>, matched, context)]

\* buildBreadcrumbTrail: [threw, error, trail].
buildBreadcrumbTrail(url, routes, context) ==
  TrailFrom(findRoute(url, routes), routes, context)

(***************************************************************************)
(* SpecTree: buildBreadcrumbTrail and buildNestedRoutes on tables with a   *)
(* cycle of parents, a route that is its own parent, a chain of MaxChain   *)
(* routes, a child of the home route '', an orphan, and routes without     *)
(* breadcrumb or title.                                                    *)
(***************************************************************************)
ChainPath(i) == << "c", ChrOf(96 + i) >>

ChainTable(n) ==
  [i \in 1..n |->
     TreeRoute(ChainPath(i), IF i = 1 THEN Undefined ELSE Defined(ChainPath(i - 1)),
               TRUE, FALSE)]

TreeTables ==
  {<< TreeRoute(<< "d" >>, Undefined, TRUE, TRUE),
      TreeRoute(<< "s" >>, Defined(<< "d" >>), TRUE, FALSE),
      TreeRoute(<< "u", "/", "[", "i", "d", "]" >>, Defined(<< "s" >>), TRUE, FALSE),
      TreeRoute(<< "t" >>, Defined(<< "d" >>), TRUE, TRUE) >>,
   << TreeRoute(<< "a" >>, Defined(<< "b" >>), TRUE, FALSE),
      TreeRoute(<< "b" >>, Defined(<< "a" >>), TRUE, FALSE) >>,
   << TreeRoute(<< "a" >>, Defined(<< "a" >>), TRUE, FALSE) >>,
   ChainTable(MaxChain),
   << TreeRoute(<<>>, Undefined, TRUE, FALSE),
      TreeRoute(<< "a", "b", "o", "u", "t" >>, Defined(<<>>), TRUE, FALSE) >>,
   << TreeRoute(<< "s" >>, Defined(<< "m" >>), TRUE, FALSE),
      TreeRoute(<< "d" >>, Undefined, TRUE, FALSE) >>,
   << TreeRoute(<< "f" >>, Defined(<< "e" >>), FALSE, TRUE),
      TreeRoute(<< "e" >>, Undefined, FALSE, FALSE) >>,
   <<>>}

TreeUrls ==
  {<< "/" >> \o p : p \in {<<>>, << "d" >>, << "s" >>, << "t" >>, << "u", "/", "7" >>, << "a" >>,
                          << "b" >>, << "a", "b", "o", "u", "t" >>, << "e" >>, << "f" >>,
                          << "z", "z" >>}}
    \cup {<< "/" >> \o ChainPath(i) : i \in 1..MaxChain}
    \cup {<< "%" >>, << "/", "d", "%" >>}

TreeContexts == {NoObject, EmptyContext, Object(<< Entry(<< "v" >>, VStr(<< "t" >>)) >>)}

TrailCalls ==
  {[op |-> "buildBreadcrumbTrail", url |-> [kind |-> "string", s |-> u], routes |-> t,
    context |-> c] : u \in TreeUrls, t \in TreeTables, c \in TreeContexts}

NestCalls == {[op |-> "buildNestedRoutes", routes |-> t] : t \in TreeTables}

Trail ==
  /\ Ready("buildBreadcrumbTrail")
  /\ Finish(buildBreadcrumbTrail(call.url, call.routes, call.context))

Nest == Ready("buildNestedRoutes") /\ Finish(buildNestedRoutes(call.routes))

InitTree == Start(TrailCalls \cup NestCalls)

NextTree == Trail \/ Nest

SpecTree == InitTree /\ [][NextTree]_vars

(***************************************************************************)
(* Claims about breadcrumbs and route trees.                               *)
(***************************************************************************)
\* C16: for every table, with a cycle of parents or a chain longer than 10
\* too, and every URL findRoute resolves or misses, buildBreadcrumbTrail
\* ends without an error and its trail has at most 10 labels, no two of
\* them for the same route path.
C16_WalkIsBounded ==
  Done("buildBreadcrumbTrail") /\ ~findRoute(call.url, call.routes).threw =>
    /\ ~result.threw
    /\ Len(result.trail) <= 10
    /\ \A i, j \in 1..Len(result.trail) : i < j => result.trail[i].path # result.trail[j].path

\* A cycle gives the two labels of its routes, a chain of more than 10
\* routes gives 10 labels.
C16_Witness ==
  /\ Done("buildBreadcrumbTrail")
  /\ \/ /\ Len(call.routes) = 2
        /\ call.routes[1].parentPath = Defined(call.routes[2].path)
        /\ call.routes[2].parentPath = Defined(call.routes[1].path)
        /\ Len(result.trail) = 2
     \/ /\ Len(call.routes) > 10
        /\ call.url.s = << "/" >> \o ChainPath(Len(call.routes))
        /\ Len(result.trail) = 10

RECURSIVE ChainTo(_, _, _)
\* The positions of the ancestors of routes[i], from the one without a
\* parentPath down to i; ok = FALSE when a parent is missing or the links
\* do not end within fuel steps.
ChainTo(routes, i, fuel) ==
  IF fuel = 0 THEN [ok |-> FALSE, chain |-> <<>>]
  ELSE IF ~routes[i].parentPath.defined THEN [ok |-> TRUE, chain |-> << i >>]
  ELSE LET parent == FindByPath(routes, routes[i].parentPath.s)
       IN  IF parent = 0 THEN [ok |-> FALSE, chain |-> <<>>]
           ELSE [ok |-> ChainTo(routes, parent, fuel - 1).ok,
                 chain |-> Append(ChainTo(routes, parent, fuel - 1).chain, i)]

UniquePaths(routes) == \A i, j \in 1..Len(routes) : i # j => routes[i].path # routes[j].path

\* The parentPath links are acyclic and all resolve.
LinksResolve(routes) == \A i \in 1..Len(routes) : ChainTo(routes, i, Len(routes)).ok

LabelKind(route) ==
  IF route.breadcrumb THEN "breadcrumb" ELSE IF route.title THEN "title" ELSE "empty"

\* C17 as stated, for the inputs most favourable to it (a URL findRoute
\* resolves or misses, unique paths, at most 10 ancestors): when the
\* parentPath links are acyclic and all resolve, the trail runs from the
\* ancestor without parentPath, through each route's parent, to the matched
\* route, each label being the route's breadcrumb or else its title; a URL
\* that matches no route gives the empty trail.
C17_RootToMatched ==
  /\ Done("buildBreadcrumbTrail")
  /\ ~findRoute(call.url, call.routes).threw
  /\ UniquePaths(call.routes) /\ LinksResolve(call.routes)
  => LET matched == findRoute(call.url, call.routes)
         chain   == ChainTo(call.routes, matched.index, Len(call.routes)).chain
     IN  /\ ~result.threw
         /\ ~matched.found => result.trail = <<>>
         /\ matched.found /\ Len(chain) <= 10 =>
              /\ Len(result.trail) = Len(chain)
              /\ \A k \in 1..Len(chain) :
                   /\ result.trail[k].path = call.routes[chain[k]].path
                   /\ result.trail[k].by = LabelKind(call.routes[chain[k]])

\* C18: the caller's context goes only to the label function of the matched
\* route, whose label ends the trail; the label function of every ancestor
\* gets an empty context, with the params and the query of the match.
C18_ContextOnlyToMatched ==
  Done("buildBreadcrumbTrail") /\ ~result.threw /\ result.trail # <<>> =>
    LET matched == findRoute(call.url, call.routes)
        last    == Len(result.trail)
    IN  /\ result.trail[last].path = call.routes[matched.index].path
        /\ result.trail[last].context = call.context
        /\ \A k \in 1..last :
             /\ k < last => result.trail[k].context = EmptyContext
             /\ result.trail[k].params = matched.params
             /\ result.trail[k].query = matched.query

\* '/u/7' with the context { v: 't' }: three labels, the context in the last.
C18_Witness ==
  /\ Done("buildBreadcrumbTrail")
  /\ call.url.s = << "/", "u", "/", "7" >>
  /\ call.context = Object(<< Entry(<< "v" >>, VStr(<< "t" >>)) >>)
  /\ Len(result.trail) = 3
  /\ result.trail[1].context = EmptyContext /\ result.trail[2].context = EmptyContext
  /\ result.trail[3].context = call.context
  /\ result.trail[1].params = << Entry(<< "i", "d" >>, << "7" >>) >>

\* How often node n is a root or a child in the forest.
Occurrences(forest, n) ==
  Cardinality({i \in 1..Len(forest.roots) : forest.roots[i] = n})
    + Cardinality({<< p, i >> \in (DOMAIN forest.children) \X (1..Len(forest.children)) :
                     i <= Len(forest.children[p]) /\ forest.children[p][i] = n})

Increasing(xs) == \A i, j \in 1..Len(xs) : i < j => xs[i] < xs[j]

\* C19 as stated, for tables with unique paths: the roots are exactly the
\* routes without parentPath, in table order; a route whose parentPath is
\* the path of a route of the table is a child of that route's node, the
\* children in table order; a route whose parentPath is no route's path is
\* nowhere in the forest; no route is in the forest more than once.
C19_Forest ==
  Done("buildNestedRoutes") /\ UniquePaths(call.routes) =>
    LET routes == call.routes
    IN  /\ Increasing(result.roots)
        /\ \A i \in 1..Len(routes) :
             /\ Occurrences(result, i) <= 1
             /\ (\E r \in 1..Len(result.roots) : result.roots[r] = i)
                  <=> ~routes[i].parentPath.defined
             /\ Increasing(result.children[i])
             /\ routes[i].parentPath.defined =>
                  LET parent == FindByPath(routes, routes[i].parentPath.s)
                  IN  IF parent = 0 THEN Occurrences(result, i) = 0
                      ELSE \E c \in 1..Len(result.children[parent]) :
                             result.children[parent][c] = i

(***************************************************************************)
(* Route defaults (src/src/route-defaults.ts).  A function-valued option   *)
(* or route field is a value of kind "undefined", "null" or "function";    *)
(* a function is known by its name only.                                   *)
(***************************************************************************)
NoFn == [kind |-> "undefined", name |-> ""]

NullFn == [kind |-> "null", name |-> ""]

Fn(name) == [kind |-> "function", name |-> name]

\* !x is false exactly for a function.
Truthy(x) == x.kind = "function"

\* a ?? b
Coalesce(a, b) == IF a.kind \in {"undefined", "null"} THEN b ELSE a

DefaultsRoute(path, parentPath, queryParamsFactory, encodeQueryValue, serializeQuery) ==
  [path |-> path, parentPath |-> parentPath, queryParamsFactory |-> queryParamsFactory,
   encodeQueryValue |-> encodeQueryValue, serializeQuery |-> serializeQuery]

\* The factory built by the last operand of the ?? chain.
QueryParamsBaseFactory == Fn("QueryParamsBase")

\* One element of routes.map: the spread of r, then the three overrides.
\* withDefaults in which a supplied default replaces the route's own field.
withDefaultsDefaultWins(r, options) ==
  [r EXCEPT
     !.queryParamsFactory = options.queryParamsFactory,
     !.encodeQueryValue =
       IF Truthy(options.encodeQueryValue) THEN options.encodeQueryValue ELSE @,
     !.serializeQuery =
       IF Truthy(options.serializeQuery) THEN options.serializeQuery ELSE @]

withDefaults(r, options) ==
  [r EXCEPT
     !.queryParamsFactory =
       Coalesce(@, Coalesce(options.queryParamsFactory, QueryParamsBaseFactory)),
     !.encodeQueryValue =
       IF Truthy(options.encodeQueryValue) THEN Coalesce(@, options.encodeQueryValue) ELSE @,
     !.serializeQuery =
       IF Truthy(options.serializeQuery) THEN Coalesce(@, options.serializeQuery) ELSE @]

FactoryError == "applyRouteDefaults: A query params factory must be provided."

EncodingError == "applyRouteDefaults: At least one encoding method must be provided."

\* applyRouteDefaults without its second test.
applyRouteDefaultsNoEncodingTest(routes, options) ==
  IF ~Truthy(options.queryParamsFactory)
    THEN [threw |-> TRUE, error |-> FactoryError, routes |-> <<>>]
    ELSE [threw |-> FALSE, error |-> "",
          routes |-> [i \in 1..Len(routes) |-> withDefaults(routes[i], options)]]

applyRouteDefaults(routes, options) ==
  IF ~Truthy(options.queryParamsFactory)
    THEN [threw |-> TRUE, error |-> FactoryError, routes |-> <<>>]
  ELSE IF ~Truthy(options.encodeQueryValue) /\ ~Truthy(options.serializeQuery)
    THEN [threw |-> TRUE, error |-> EncodingError, routes |-> <<>>]
  ELSE [threw |-> FALSE, error |-> "",
        routes |-> [i \in 1..Len(routes) |-> withDefaults(routes[i], options)]]

(***************************************************************************)
(* SpecDefaults: applyRouteDefaults on tables of up to MaxDefaultsRoutes   *)
(* routes, each option and each route field absent or a function, the     *)
(* encoder also null.                                                      *)
(***************************************************************************)
MaxDefaultsRoutes == 2

OptionValues(name) == {NoFn, NullFn, Fn(name)}

DefaultsOptions ==
  [queryParamsFactory : {NoFn, Fn("f")}, encodeQueryValue : OptionValues("e"),
   serializeQuery : {NoFn, Fn("s")}]

DefaultsRoutes ==
  {DefaultsRoute(pp[1], pp[2], f, e, s) :
     pp \in {<< << "a" >>, Undefined >>, << << "b" >>, Defined(<< "a" >>) >>},
     f \in {NoFn, Fn("rf")}, e \in {NoFn, NullFn, Fn("re")}, s \in {NoFn, Fn("rs")}}

DefaultsTables ==
  UNION {[1..n -> DefaultsRoutes] : n \in 0..MaxDefaultsRoutes}

DefaultsCalls ==
  {[op |-> "applyRouteDefaults", routes |-> t, options |-> o] :
     t \in DefaultsTables, o \in DefaultsOptions}

InitDefaults == Start(DefaultsCalls)

ApplyDefaults ==
  Ready("applyRouteDefaults") /\ Finish(applyRouteDefaults(call.routes, call.options))

NextDefaults == ApplyDefaults

SpecDefaults == InitDefaults /\ [][NextDefaults]_vars

\* C20: applyRouteDefaults throws when no queryParamsFactory is supplied,
\* and throws when a factory is supplied but neither encodeQueryValue nor
\* serializeQuery is; a call that throws returns no route list; every other
\* call returns one route per input route, in the same order.
C20_ThrowsWithoutDefaults ==
  Done("applyRouteDefaults") =>
    LET options == call.options
        noFactory  == ~Truthy(options.queryParamsFactory)
        noEncoding == ~Truthy(options.encodeQueryValue) /\ ~Truthy(options.serializeQuery)
    IN  /\ noFactory => result.threw /\ result.error = FactoryError
        /\ ~noFactory /\ noEncoding => result.threw /\ result.error = EncodingError
        /\ result.threw => result.routes = <<>>
        /\ ~noFactory /\ ~noEncoding =>
             /\ ~result.threw
             /\ Len(result.routes) = Len(call.routes)
             /\ \A i \in 1..Len(call.routes) : result.routes[i].path = call.routes[i].path

\* Two routes and a factory but neither encoder nor serializer: the call throws.
C20_Witness ==
  /\ Done("applyRouteDefaults")
  /\ Len(call.routes) = 2 /\ call.routes[1].path # call.routes[2].path
  /\ call.options = [queryParamsFactory |-> Fn("f"), encodeQueryValue |-> NoFn,
                     serializeQuery |-> NoFn]
  /\ result.threw /\ result.error = EncodingError

\* What C21 gives a field: the route's own value where the route defines it,
\* else the default where one was supplied, else the field as it was.
FilledField(own, default) ==
  IF own.kind = "function" THEN own
  ELSE IF default.kind = "function" THEN default ELSE own

\* C21: for each route, applyRouteDefaults fills queryParamsFactory,
\* encodeQueryValue and serializeQuery from the defaults only where the route
\* does not define the field; a field the route defines keeps its value, a
\* field without a supplied default stays as it was, and every other field
\* of the route is carried over unchanged.
C21_FillsOnlyAbsentFields ==
  Done("applyRouteDefaults") /\ ~result.threw =>
    \A i \in 1..Len(call.routes) :
      LET r   == call.routes[i]
          out == result.routes[i]
      IN  /\ out.queryParamsFactory = FilledField(r.queryParamsFactory, call.options.queryParamsFactory)
          /\ out.encodeQueryValue = FilledField(r.encodeQueryValue, call.options.encodeQueryValue)
          /\ out.serializeQuery = FilledField(r.serializeQuery, call.options.serializeQuery)
          /\ out.path = r.path /\ out.parentPath = r.parentPath
          /\ DOMAIN out = DOMAIN r

\* A route with its own encoder and no serializer, under defaults for both:
\* the encoder is kept, the serializer and the factory are filled.
C21_Witness ==
  /\ Done("applyRouteDefaults") /\ ~result.threw
  /\ call.options = [queryParamsFactory |-> Fn("f"), encodeQueryValue |-> Fn("e"),
                     serializeQuery |-> Fn("s")]
  /\ Len(call.routes) = 2
  /\ call.routes[2] = DefaultsRoute(<< "b" >>, Defined(<< "a" >>), NoFn, Fn("re"), NoFn)
  /\ result.routes[2] = DefaultsRoute(<< "b" >>, Defined(<< "a" >>), Fn("f"), Fn("re"), Fn("s"))

(***************************************************************************)
(* Lookup by URL or by path (serialize-query.ts, getRoute and getHref).    *)
(***************************************************************************)
\* getRoute after found = findRoute(relativePart, routes).
RouteFrom(found) ==
  IF found.threw THEN found
  ELSE IF ~found.found THEN Thrown("Route not found for path")
  ELSE found

getRoute(pageUrl, routes) ==
  IF ~getRelativePart(pageUrl).defined THEN Thrown("A valid page URL is required")
  ELSE RouteFrom(findRoute([kind |-> "string", s |-> getRelativePart(pageUrl).s], routes))

\* getHref with a path string: routes.find((r) => r.path === pathOrRoute).
getHref(path, routes, args) ==
  IF FindByPath(routes, path) = 0
    THEN [threw |-> TRUE, missing |-> <<>>, href |-> <<>>]
    ELSE buildHref(routes[FindByPath(routes, path)], args)

(***************************************************************************)
(* The engine over a heap of objects.  An object is known by its position  *)
(* in the heap; a route list is an array object whose items are the        *)
(* positions of its route objects.  Each operation gives the heap after    *)
(* the call, what it threw, and the objects it returned.                   *)
(***************************************************************************)
FrameRoute(path, parentPath, title, breadcrumb) ==
  [path |-> path, parentPath |-> parentPath, title |-> title, breadcrumb |-> breadcrumb,
   queryParamsFactory |-> NoFn, encodeQueryValue |-> NoFn, serializeQuery |-> NoFn]

NoRoute == FrameRoute(<<>>, Undefined, FALSE, FALSE)

RouteObject(route) == [kind |-> "route", route |-> route, items |-> <<>>]

ArrayObject(items) == [kind |-> "array", route |-> NoRoute, items |-> items]

\* { ...route, children: [] }: the copy and the children array it owns.
NodeObject(route, children) == [kind |-> "node", route |-> route, items |-> children]

\* The table as the matcher, the tree builder and the href builder read it:
\* a route without encoder and serializer.
EngineRoute(route) == TreeRoute(route.path, route.parentPath, route.title, route.breadcrumb)

RoutesAt(heap, table) ==
  [i \in 1..Len(heap[table].items) |-> heap[heap[table].items[i]].route]

EngineRoutesAt(heap, table) ==
  [i \in 1..Len(heap[table].items) |-> EngineRoute(heap[heap[table].items[i]].route)]

Outcome(heap, threw, returned) == [heap |-> heap, threw |-> threw, returned |-> returned]

\* findRoute and getRoute return { route, ... } with the route object of the
\* table itself; nothing is written.
MatchOnHeap(heap, table, matched) ==
  Outcome(heap, matched.threw,
          IF matched.found THEN << heap[table].items[matched.index] >> ELSE <<>>)

findRouteOnHeap(heap, table, url) ==
  MatchOnHeap(heap, table, findRoute(url, EngineRoutesAt(heap, table)))

getRouteOnHeap(heap, table, url) ==
  MatchOnHeap(heap, table, getRoute(url, EngineRoutesAt(heap, table)))

\* buildHref and getHref return a string.
buildHrefOnHeap(heap, route, args) ==
  Outcome(heap, buildHref(EngineRoute(heap[route].route), args).threw, <<>>)

getHrefOnHeap(heap, table, path, args) ==
  Outcome(heap, getHref(path, EngineRoutesAt(heap, table), args).threw, <<>>)

\* buildBreadcrumbTrail returns a new array of strings.
buildBreadcrumbTrailOnHeap(heap, table, url) ==
  Outcome(heap, buildBreadcrumbTrail(url, EngineRoutesAt(heap, table), NoObject).threw, <<>>)

\* buildNestedRoutes: node i of the forest is a new object at Len(heap) + i;
\* the roots array is new as well.  Returned: the roots array.
NestedOnHeap(heap, routes, forest) ==
  Outcome(heap
            \o [i \in 1..Len(routes) |->
                  NodeObject(routes[i],
                             [c \in 1..Len(forest.children[i]) |->
                                Len(heap) + forest.children[i][c]])]
            \o << ArrayObject([r \in 1..Len(forest.roots) |-> Len(heap) + forest.roots[r]]) >>,
          FALSE, << Len(heap) + Len(routes) + 1 >>)

buildNestedRoutesOnHeap(heap, table) ==
  NestedOnHeap(heap, RoutesAt(heap, table), buildNestedRoutes(EngineRoutesAt(heap, table)))

\* applyRouteDefaults writing the defaults into the caller's route objects.
DefaultsOnHeapInPlace(heap, table, applied) ==
  IF applied.threw THEN Outcome(heap, TRUE, <<>>)
  ELSE Outcome([id \in 1..Len(heap) |->
                  IF \E i \in 1..Len(applied.routes) : heap[table].items[i] = id
                    THEN RouteObject(applied.routes[
                           CHOOSE i \in 1..Len(applied.routes) : heap[table].items[i] = id])
                    ELSE heap[id]],
               FALSE, << table >>)

\* applyRouteDefaults: routes.map gives a new array of new objects.
\* Returned: the new array.
DefaultsOnHeap(heap, table, applied) ==
  IF applied.threw THEN Outcome(heap, TRUE, <<>>)
  ELSE Outcome(heap
                 \o [i \in 1..Len(applied.routes) |-> RouteObject(applied.routes[i])]
                 \o << ArrayObject([i \in 1..Len(applied.routes) |-> Len(heap) + i]) >>,
               FALSE, << Len(heap) + Len(applied.routes) + 1 >>)

applyRouteDefaultsOnHeap(heap, table, options) ==
  DefaultsOnHeap(heap, table, applyRouteDefaults(RoutesAt(heap, table), options))

(***************************************************************************)
(* SpecFrame: up to MaxFrameCalls engine calls, one after the other, on    *)
(* one caller-supplied table.  call holds the heap and the table as the    *)
(* caller built them; result holds the heap after the calls made so far    *)
(* and the outcome of the last one.                                        *)
(***************************************************************************)
MaxFrameCalls == 2

FrameTables ==
  {<< FrameRoute(<< "d" >>, Undefined, TRUE, TRUE),
      FrameRoute(<< "s" >>, Defined(<< "d" >>), TRUE, FALSE),
      FrameRoute(<< "u", "/", "[", "i", "d", "]" >>, Defined(<< "s" >>), TRUE, FALSE) >>,
   << FrameRoute(<< "a" >>, Defined(<< "b" >>), TRUE, FALSE),
      FrameRoute(<< "b" >>, Defined(<< "a" >>), TRUE, FALSE) >>,
   << [FrameRoute(<< "d" >>, Undefined, TRUE, FALSE) EXCEPT !.encodeQueryValue = Fn("re")] >>}

FrameUrls ==
  {[kind |-> "string", s |-> u] :
     u \in {<< "/", "d" >>, << "/", "u", "/", "7" >>, << "/", "a" >>, << "/", "z" >>, << "%" >>}}

FramePaths == {<< "d" >>, << "u", "/", "[", "i", "d", "]" >>, << "a" >>, << "z" >>}

FrameArgs ==
  {HrefArgs(params, NoObject, Undefined, Undefined) :
     params \in {NoObject, Object(<< Entry(<< "i", "d" >>, Defined(<< "7" >>)) >>)}}

FrameOptions ==
  {[queryParamsFactory |-> f, encodeQueryValue |-> Fn("e"), serializeQuery |-> NoFn] :
     f \in {NoFn, Fn("f")}}

InitialHeap(routes) ==
  [i \in 1..Len(routes) |-> RouteObject(routes[i])]
    \o << ArrayObject([i \in 1..Len(routes) |-> i]) >>

FrameCalls ==
  {[op |-> "engine", heap |-> InitialHeap(t), routes |-> Len(t) + 1] : t \in FrameTables}

InitFrame ==
  /\ call \in FrameCalls
  /\ pc = "ready"
  /\ result = [heap |-> call.heap, threw |-> FALSE, returned |-> <<>>, op |-> "", calls |-> 0]

\* One more call made: its outcome, on the heap the calls so far left.
Called(op, outcome) ==
  /\ pc' = IF result.calls + 1 = MaxFrameCalls THEN "done" ELSE "ready"
  /\ result' = [heap |-> outcome.heap, threw |-> outcome.threw,
                returned |-> outcome.returned, op |-> op, calls |-> result.calls + 1]
  /\ UNCHANGED call

FrameFindRoute ==
  /\ Ready("engine")
  /\ \E url \in FrameUrls :
       Called("findRoute", findRouteOnHeap(result.heap, call.routes, url))

FrameGetRoute ==
  /\ Ready("engine")
  /\ \E url \in FrameUrls :
       Called("getRoute", getRouteOnHeap(result.heap, call.routes, url))

FrameBuildHref ==
  /\ Ready("engine")
  /\ \E i \in 1..Len(result.heap[call.routes].items), args \in FrameArgs :
       Called("buildHref", buildHrefOnHeap(result.heap, result.heap[call.routes].items[i], args))

FrameGetHref ==
  /\ Ready("engine")
  /\ \E path \in FramePaths, args \in FrameArgs :
       Called("getHref", getHrefOnHeap(result.heap, call.routes, path, args))

FrameNest ==
  /\ Ready("engine")
  /\ Called("buildNestedRoutes", buildNestedRoutesOnHeap(result.heap, call.routes))

FrameTrail ==
  /\ Ready("engine")
  /\ \E url \in FrameUrls :
       Called("buildBreadcrumbTrail", buildBreadcrumbTrailOnHeap(result.heap, call.routes, url))

FrameDefaults ==
  /\ Ready("engine")
  /\ \E options \in FrameOptions :
       Called("applyRouteDefaults", applyRouteDefaultsOnHeap(result.heap, call.routes, options))

NextFrame ==
  \/ FrameFindRoute \/ FrameGetRoute \/ FrameBuildHref \/ FrameGetHref
  \/ FrameNest \/ FrameTrail \/ FrameDefaults

SpecFrame == InitFrame /\ [][NextFrame]_vars

\* The objects the caller built: the route list and its route definitions.
CallerObjects == 1..Len(call.heap)

\* C22: no engine operation (findRoute, getRoute, buildHref, getHref,
\* buildNestedRoutes, buildBreadcrumbTrail, applyRouteDefaults) modifies the
\* caller's route list or a route definition in it: after any sequence of
\* calls they equal their initial value; the list applyRouteDefaults
\* returns and the routes in it are new objects, none of the caller's.
C22_TableIsNeverModified ==
  call.op = "engine" =>
    /\ \A id \in CallerObjects : result.heap[id] = call.heap[id]
    /\ result.op \in {"applyRouteDefaults", "buildNestedRoutes"} /\ ~result.threw =>
         /\ result.returned[1] \notin CallerObjects
         /\ \A i \in 1..Len(result.heap[result.returned[1]].items) :
              result.heap[result.returned[1]].items[i] \notin CallerObjects

\* applyRouteDefaults as the second call, after buildNestedRoutes: the new
\* list holds a route that differs from the caller's route at that place.
C22_Witness ==
  /\ call.op = "engine" /\ pc = "done"
  /\ result.op = "applyRouteDefaults" /\ ~result.threw
  /\ Len(result.heap) > 2 * Len(call.heap)
  /\ \E i \in 1..Len(call.heap[call.routes].items) :
       result.heap[result.heap[result.returned[1]].items[i]].route
         # call.heap[call.heap[call.routes].items[i]].route

\* The URL's fragment decodes (or there is none).
FragmentDecodes(urlString) ==
  LET hash == NewUrlRelative(getRelativePart(urlString).s).hash
  IN  ~DecodeURIComponent(IF hash = <<>> THEN <<>> ELSE Tail(hash)).threw

RECURSIVE CapturedParams(_, _, _)
\* The params object made of the captures as they are.
CapturedParams(paramNames, groups, acc) ==
  IF paramNames = <<>> THEN acc
  ELSE CapturedParams(Tail(paramNames), Tail(groups), Put(acc, Head(paramNames), Head(groups)))

\* C23 as stated, for path parameters: when a route of a table of valid
\* patterns matches the URL's once-decoded path, resolution does not fail,
\* also when a capture contains a '%', and each path parameter of the first
\* matching route is the text it captured from the once-decoded path,
\* decoded no further.
C23_DecodedOnce ==
  /\ Done("findRoute") /\ TableIsValid(call.routes)
  /\ MatchingRoutes(call.routes, call.urlString) # {}
  /\ FragmentDecodes(call.urlString)
  => LET matching == MatchingRoutes(call.routes, call.urlString)
         first    == CHOOSE i \in matching : \A j \in matching : i <= j
         compiled == pathToRegex(call.routes[first].path)
         match    == RegexExec(compiled.regex, UrlPath(call.urlString).s)
     IN  /\ ~result.threw
         /\ result.found
         /\ result.params = CapturedParams(compiled.paramNames, match.groups, <<>>)

(***************************************************************************)
(* Enum lookup of the application reader (examples/app-query.ts).  An enum *)
(* object is the sequence of its [k, v] members in for-in order, v being   *)
(* String(enumObj[k]); options are [defined, convert, ignoreCase], a field  *)
(* left out being FALSE as the destructuring defaults make it.             *)
(***************************************************************************)
NoKey == [defined |-> FALSE, s |-> <<>>]

RECURSIVE MatchMember(_, _, _, _, _)
\* for (const key in enumObj): the first member from position i on whose
\* key (byValue = FALSE) or value (byValue = TRUE) compares equal.
MatchMember(enumObj, i, searchValue, ignoreCase, byValue) ==
  IF i > Len(enumObj) THEN NoKey
  ELSE IF (IF ignoreCase
             THEN ToLowerCase(IF byValue THEN enumObj[i].v ELSE enumObj[i].k)
             ELSE (IF byValue THEN enumObj[i].v ELSE enumObj[i].k)) = searchValue
    THEN [defined |-> TRUE, s |-> enumObj[i].k]
  ELSE MatchMember(enumObj, i + 1, searchValue, ignoreCase, byValue)

matchEnumKey(enumObj, searchValue, ignoreCase) ==
  MatchMember(enumObj, 1, searchValue, ignoreCase, FALSE)

matchEnumByValue(enumObj, searchValue, ignoreCase) ==
  MatchMember(enumObj, 1, searchValue, ignoreCase, TRUE)

\* toEnumKey after searchValue is computed.
EnumKeyFor(enumObj, searchValue, options) ==
  IF matchEnumKey(enumObj, searchValue, options.ignoreCase).defined
    THEN matchEnumKey(enumObj, searchValue, options.ignoreCase)
  ELSE IF options.convert THEN matchEnumByValue(enumObj, searchValue, options.ignoreCase)
  ELSE NoKey

\* toEnumKey that looks among the values before the keys.
toEnumKeyValuesFirst(enumObj, value, options) ==
  IF ~value.defined \/ value.s = <<>> THEN NoKey
  ELSE IF options.convert
          /\ matchEnumByValue(enumObj, IF options.ignoreCase THEN ToLowerCase(value.s)
                                       ELSE value.s, options.ignoreCase).defined
    THEN matchEnumByValue(enumObj, IF options.ignoreCase THEN ToLowerCase(value.s) ELSE value.s,
                          options.ignoreCase)
  ELSE matchEnumKey(enumObj, IF options.ignoreCase THEN ToLowerCase(value.s) ELSE value.s,
                    options.ignoreCase)

toEnumKey(enumObj, value, options) ==
  IF ~value.defined \/ value.s = <<>> THEN NoKey
  ELSE EnumKeyFor(enumObj, IF options.ignoreCase THEN ToLowerCase(value.s) ELSE value.s, options)

\* enumObj[key] for the key found, undefined for none.
MemberValue(enumObj, key) ==
  IF ~key.defined THEN NoKey
  ELSE [defined |-> TRUE,
        s |-> enumObj[CHOOSE i \in 1..Len(enumObj) : enumObj[i].k = key.s].v]

toEnumValue(enumObj, value, options) == MemberValue(enumObj, toEnumKey(enumObj, value, options))

\* options ?? { convert: true, ignoreCase: true }
EnumOptions(options) ==
  IF options.defined THEN options
  ELSE [defined |-> TRUE, convert |-> TRUE, ignoreCase |-> TRUE]

\* AppQueryParams.enumKey and enumValue over the raw mapping params.
enumKey(params, enumObj, key, options) ==
  toEnumKey(enumObj, ReaderValue(params, key), EnumOptions(options))

enumValue(params, enumObj, key, options) ==
  toEnumValue(enumObj, ReaderValue(params, key), EnumOptions(options))

(***************************************************************************)
(* SpecEnum: enumKey and enumValue on enums of up to MaxEnumMembers        *)
(* members whose keys and values overlap, also up to case.                 *)
(***************************************************************************)
MaxEnumMembers == 2

EnumKeys == {<< "A" >>, << "B" >>, << "a" >>}

EnumValues == {<< "B" >>, << "a" >>, << "x" >>}

EnumObjects ==
  {e \in SeqsUpTo([k : EnumKeys, v : EnumValues], MaxEnumMembers) :
     \A i, j \in 1..Len(e) : i # j => e[i].k # e[j].k}

EnumRawValues == {<< "A" >>, << "a" >>, << "B" >>, << "b" >>, << "X" >>, << " ", "x" >>}

EnumParams ==
  {[key \in {<< "k" >>} |-> [isArray |-> FALSE, items |-> << v >>]] : v \in EnumRawValues}

EnumOptionSets ==
  {[defined |-> FALSE, convert |-> FALSE, ignoreCase |-> FALSE]}
    \cup [defined : {TRUE}, convert : BOOLEAN, ignoreCase : BOOLEAN]

EnumCalls ==
  {[op |-> o, params |-> p, enumObj |-> e, key |-> k, options |-> opt] :
     o \in {"enumKey", "enumValue"}, p \in EnumParams, e \in EnumObjects,
     k \in {<< "k" >>, << "j" >>}, opt \in EnumOptionSets}

EnumKey ==
  Ready("enumKey") /\ Finish(enumKey(call.params, call.enumObj, call.key, call.options))

EnumValue ==
  Ready("enumValue") /\ Finish(enumValue(call.params, call.enumObj, call.key, call.options))

InitEnum == Start(EnumCalls)

NextEnum == EnumKey \/ EnumValue

SpecEnum == InitEnum /\ [][NextEnum]_vars

\* a and b are equal, up to case when ignoreCase is set.
SameText(a, b, ignoreCase) ==
  IF ignoreCase THEN ToLowerCase(a) = ToLowerCase(b) ELSE a = b

\* The member C24 names: the first whose key equals the raw value, else,
\* with convert, the first whose value equals it, else 0.
ClaimedMember(enumObj, raw, options) ==
  LET byKey   == {i \in 1..Len(enumObj) : SameText(enumObj[i].k, raw, options.ignoreCase)}
      byValue == {i \in 1..Len(enumObj) : SameText(enumObj[i].v, raw, options.ignoreCase)}
  IN  IF byKey # {} THEN CHOOSE i \in byKey : \A j \in byKey : i <= j
      ELSE IF options.convert /\ byValue # {} THEN CHOOSE i \in byValue : \A j \in byValue : i <= j
      ELSE 0

\* C24: enumKey and enumValue compare the raw value with the enum's keys
\* first (case-insensitively when ignoreCase is set) and, only if no key
\* matches and convert is set, with the enum's values; the first success
\* wins, so a member matched by key is preferred to one matched by value;
\* when nothing matches or the raw value is absent the result is absent.
C24_KeysBeforeValues ==
  pc = "done" /\ call.op \in {"enumKey", "enumValue"} =>
    LET raw    == ReaderValue(call.params, call.key)
        member == ClaimedMember(call.enumObj, raw.s, EnumOptions(call.options))
    IN  IF ~raw.defined \/ member = 0 THEN ~result.defined
        ELSE /\ result.defined
             /\ result.s = IF call.op = "enumKey" THEN call.enumObj[member].k
                           ELSE call.enumObj[member].v

\* The enum { A: 'B', B: 'x' } and the raw value 'b' under the default
\* options: A matches by value, B by key, and B is returned.
C24_Witness ==
  /\ Done("enumKey")
  /\ call.enumObj = << [k |-> << "A" >>, v |-> << "B" >>], [k |-> << "B" >>, v |-> << "x" >>] >>
  /\ call.key = << "k" >> /\ call.params[<< "k" >>].items = << << "b" >> >>
  /\ ~call.options.defined
  /\ result = [defined |-> TRUE, s |-> << "B" >>]

(***************************************************************************)
(* The basic serializer and the synthetic reader (serialize-query.ts       *)
(* 21-33 and 177-193).                                                     *)
(***************************************************************************)
\* serializeQuery(query, args, route): the entries with a value, each through
\* encodeKeyValues, joined with '&'.
serializeQuery(query, route) ==
  IF ~query.defined THEN <<>>
  ELSE Join(QueryPairs(query.entries, route), << "&" >>)

\* TypedStrings that takes the JSON text of a plain object in an array.
TypedStringsKeepsPlain(value) ==
  IF value.t = "null" THEN <<>>
  ELSE IF value.t = "array"
    THEN LET HasValue(v) == v.t # "null"
         IN  Filter(MapSeq(Filter(value.items, HasValue), toSafeString), NotEmpty)
  ELSE IF toSafeString(value) # <<>> THEN << toSafeString(value) >>
  ELSE <<>>

\* What createQueryParamsFromTyped stores under the key of a value: the
\* strings, none for a key it leaves out.
TypedStrings(value) ==
  IF value.t = "null" THEN <<>>
  ELSE IF value.t = "array"
    THEN LET HasValue(v) == v.t # "null"
             SafeOrEmpty(v) == IF hasCustomToString(v) THEN toSafeString(v) ELSE <<>>
         IN  Filter(MapSeq(Filter(value.items, HasValue), SafeOrEmpty), NotEmpty)
  ELSE IF toSafeString(value) # <<>> THEN << toSafeString(value) >>
  ELSE <<>>

\* createQueryParamsFromTyped: the raw mapping of the reader it returns.
createQueryParamsFromTyped(queryObj) ==
  [key \in {queryObj[i].k : i \in {j \in 1..Len(queryObj) : TypedStrings(queryObj[j].v) # <<>>}}
     |-> [isArray |-> TRUE, items |-> TypedStrings(Get(queryObj, key))]]

(***************************************************************************)
(* SpecQuery: the default pipeline and the synthetic reader on queries of  *)
(* up to MaxQueryEntries entries: values whose toString throws, whose JSON *)
(* text cannot be made, that the custom encoder rejects or turns into '',  *)
(* and arrays of such values.                                              *)
(***************************************************************************)
MaxQueryEntries == 2

ThrowingToString == VCustom(<<>>, FALSE)

Circular == VPlain(<<>>, FALSE)

QueryScalars ==
  {VNull, VStr(<<>>), VStr(<< "a" >>), VStr(<< "b" >>), VStr(<< " ", "c", " " >>),
   VNum(<< "1" >>), VCustom(<< "b" >>, TRUE), VPlain(<< "{", "}" >>, TRUE),
   ThrowingToString, Circular}

QueryArrays ==
  {VArr(<<>>),
   VArr(<< VStr(<< "b" >>), VStr(<< "a" >>), VStr(<< "b" >>) >>),
   VArr(<< VStr(<< "a" >>), ThrowingToString >>),
   VArr(<< ThrowingToString, VStr(<< "a" >>), VNull >>),
   VArr(<< VStr(<< "a" >>), VStr(<<>>), VStr(<< "b" >>) >>),
   VArr(<< VNum(<< "1" >>), VStr(<< "a" >>), VStr(<< " ", "c", " " >>) >>),
   VArr(<< VPlain(<< "{", "}" >>, TRUE), Circular, VStr(<< "a" >>) >>),
   VArr(<< VStr(<< "b" >>), VCustom(<< "b" >>, TRUE), VStr(<< "a" >>) >>)}

QueryValues == QueryScalars \cup QueryArrays

QueryKeys == << << "k" >>, << "j" >>, << "i" >> >>

\* The values of the entries after the first.
QueryLaterValues ==
  {VStr(<< "a" >>), ThrowingToString,
   VArr(<< VStr(<< "a" >>), ThrowingToString >>),
   VArr(<< VNum(<< "1" >>), VStr(<< "a" >>), VStr(<< " ", "c", " " >>) >>)}

\* The values of the entries of a query, in order.
QueryValueLists ==
  {<<>>} \cup UNION {{<< v >> \o later : v \in QueryValues, later \in [1..n -> QueryLaterValues]} :
                      n \in 0..(MaxQueryEntries - 1)}

\* The queries: entry i has the key QueryKeys[i].
Queries ==
  {[i \in 1..Len(vs) |-> Entry(QueryKeys[i], vs[i])] : vs \in QueryValueLists}

\* A custom encoder that throws on 'b', returns '' for 1 and 'e' followed
\* by the safe string for every other value.
QueryEncoder ==
  Encoder([v \in QueryScalars |->
             IF v = VStr(<< "b" >>) THEN [threw |-> TRUE, s |-> <<>>]
             ELSE IF v = VNum(<< "1" >>) THEN [threw |-> FALSE, s |-> <<>>]
             ELSE [threw |-> FALSE, s |-> << "e" >> \o toSafeString(v)]])

QueryRoutes == {Route(<< "p" >>, <<>>, e, NoSerializer) : e \in {NoEncoder, QueryEncoder}}

QueryCalls ==
  {[op |-> "buildHref", route |-> r, query |-> q] : r \in QueryRoutes, q \in Queries}
    \cup {[op |-> "serializeQuery", route |-> r, query |-> q] : r \in QueryRoutes, q \in Queries}
    \cup {[op |-> "createQueryParamsFromTyped", route |-> PlainRoute(<< "p" >>), query |-> q] :
            q \in Queries}

QueryHref ==
  /\ Ready("buildHref")
  /\ Finish(buildHref(call.route, HrefArgs(NoObject, Object(call.query), Undefined, Undefined)))

QuerySerialize ==
  Ready("serializeQuery") /\ Finish(serializeQuery(Object(call.query), call.route))

QueryReader ==
  Ready("createQueryParamsFromTyped") /\ Finish(createQueryParamsFromTyped(call.query))

InitQuery == Start(QueryCalls)

NextQuery == QueryHref \/ QuerySerialize \/ QueryReader

SpecQuery == InitQuery /\ [][NextQuery]_vars

(***************************************************************************)
(* Claims about the default pipeline.                                      *)
(***************************************************************************)
\* Encoding the value fails: the route's encoder throws, or, without an
\* encoder, the value's toString throws or its JSON text cannot be made.
EncodingFails(value, route) ==
  IF route.encodeQueryValue.defined THEN route.encodeQueryValue.table[value].threw
  ELSE value.t \in {"custom", "plain"} /\ ~value.ok

\* The non-empty pieces between the '&' of the query string of an href of
\* the route 'p' without a fragment (an empty piece is C27's subject).
HrefPairs(href) ==
  IF Len(href) <= 2 THEN <<>>
  ELSE Filter(Split(SliceFrom(href, 3), << "&" >>), NotEmpty)

\* The pairs an entry is to contribute: none for a scalar that fails, the
\* pair of a scalar that does not, the non-empty pairs of an array.
EntryPairs(entry, route) ==
  IF entry.v.t = "array" THEN Filter(encodeKeyValues(entry.k, entry.v, route), NotEmpty)
  ELSE IF entry.v.t = "null" \/ EncodingFails(entry.v, route) THEN <<>>
  ELSE Filter(<< encodeKeyValue(entry.k, entry.v, route) >>, NotEmpty)

\* C25: an encoding failure never makes buildHref throw: a value whose
\* toString throws, whose JSON text cannot be made or on which the custom
\* encoder throws contributes no key=value pair, an array element no more
\* than a scalar, and the other entries of the query are emitted.
C25_FailuresAbsorbed ==
  Done("buildHref") /\ call.route \in QueryRoutes =>
    /\ ~result.threw
    /\ HrefPairs(result.href)
         = Flatten([i \in 1..Len(call.query) |-> EntryPairs(call.query[i], call.route)])
    /\ \A i \in 1..Len(call.query) :
         call.query[i].v.t = "array" =>
           \A p \in 1..Len(EntryPairs(call.query[i], call.route)) :
             \E x \in 1..Len(call.query[i].v.items) :
               /\ call.query[i].v.items[x].t # "null"
               /\ ~EncodingFails(call.query[i].v.items[x], call.route)
               /\ EntryPairs(call.query[i], call.route)[p]
                    = encodeKeyValue(call.query[i].k, call.query[i].v.items[x], call.route)

\* { k: 'b', j: 'a' } under the encoder that throws on 'b': only j=ea.
C25_Witness ==
  /\ Done("buildHref") /\ call.route.encodeQueryValue = QueryEncoder
  /\ call.query = << Entry(<< "k" >>, VStr(<< "b" >>)), Entry(<< "j" >>, VStr(<< "a" >>)) >>
  /\ ~result.threw
  /\ result.href = << "/", "p", "?", "j", "=", "e", "a" >>

\* The safe strings C26 lists for a value: of the value itself, or of an
\* array's non-null elements other than plain objects.
SafeStringsOf(value) ==
  IF value.t = "null" THEN <<>>
  ELSE IF value.t = "array"
    THEN LET Listed(v) == v.t \notin {"null", "plain"}
         IN  MapSeq(Filter(value.items, Listed), toSafeString)
  ELSE << toSafeString(value) >>

\* The value the query holds under the key, null for none.
QueryValueAt(queryObj, key) == IF HasKey(queryObj, key) THEN Get(queryObj, key) ELSE VNull

FirstOrAbsent(strings) ==
  IF strings = <<>> THEN Undefined ELSE Defined(strings[1])

\* C26 as stated: the reader synthesized from the typed query gives, for
\* each key, as values(key) the safe strings of the value (of an array's
\* non-null elements, plain objects dropped) without the empty ones and the
\* duplicates, in the query's order, and as value(key) the first of them,
\* absent for none.
C26_ReaderOfSafeStrings ==
  Done("createQueryParamsFromTyped") =>
    \A i \in 1..Len(QueryKeys) :
      LET listed == Dedupe(Filter(SafeStringsOf(QueryValueAt(call.query, QueryKeys[i])),
                                  NotEmpty), {})
      IN  /\ ReaderValues(result, QueryKeys[i]) = listed
          /\ ReaderValue(result, QueryKeys[i]) = FirstOrAbsent(listed)

\* C26 with the reader's trimming: values(key) lists the safe strings
\* without their surrounding white space, then without the empty ones and
\* the duplicates, in the query's order; value(key) is the first of them,
\* absent for none.
C26_ReaderOfTrimmedSafeStrings ==
  Done("createQueryParamsFromTyped") =>
    \A i \in 1..Len(QueryKeys) :
      LET listed == Dedupe(Filter(MapSeq(SafeStringsOf(QueryValueAt(call.query, QueryKeys[i])),
                                         Trim), NotEmpty), {})
      IN  /\ ReaderValues(result, QueryKeys[i]) = listed
          /\ ReaderValue(result, QueryKeys[i]) = FirstOrAbsent(listed)

\* { k: [{}, circular, 'a'], j: [1, 'a', ' c '] }: k reads as 'a' alone and
\* j as '1', 'a', 'c', in the order of the array.
C26_Witness ==
  /\ Done("createQueryParamsFromTyped")
  /\ call.query
       = << Entry(<< "k" >>, VArr(<< VPlain(<< "{", "}" >>, TRUE), Circular, VStr(<< "a" >>) >>)),
            Entry(<< "j" >>, VArr(<< VNum(<< "1" >>), VStr(<< "a" >>),
                                     VStr(<< " ", "c", " " >>) >>)) >>
  /\ ReaderValues(result, << "k" >>) = << << "a" >> >>
  /\ ReaderValues(result, << "j" >>) = << << "1" >>, << "a" >>, << "c" >> >>
  /\ ReaderValue(result, << "j" >>) = Defined(<< "1" >>)
  /\ ~ReaderValue(result, << "i" >>).defined

\* C27 as stated: the query string of the default pipeline is empty or a
\* list of non-empty key=value pairs joined with '&': it neither begins nor
\* ends with '&' and holds no '&&', whatever the elements of an array.
C27_PairsJoined ==
  Done("serializeQuery") =>
    \/ result = <<>>
    \/ \A i \in 1..Len(Split(result, << "&" >>)) :
         /\ Split(result, << "&" >>)[i] # <<>>
         /\ Includes(Split(result, << "&" >>)[i], << "=" >>)

(***************************************************************************)
(* SpecLayers: applyRouteDefaults on one route whose hooks are the ones    *)
(* buildHref reads, then buildHref on the route it returns.  The default   *)
(* serializer is one that returns a fixed text, or the library's own,      *)
(* createDefaultSerializer(), which returns serializeQuery(query) for no   *)
(* route.                                                                  *)
(***************************************************************************)
\* withDefaults for the two hooks of a route of the href builder: a hook is
\* nullish when defined = FALSE.
withDefaultHooks(r, options) ==
  [r EXCEPT
     !.encodeQueryValue =
       IF options.encodeQueryValue.defined
         THEN (IF @.defined THEN @ ELSE options.encodeQueryValue) ELSE @,
     !.serializeQuery =
       IF options.serializeQuery.defined
         THEN (IF @.defined THEN @ ELSE options.serializeQuery) ELSE @]

\* applyRouteDefaults([route], { queryParamsFactory, ...options })[0].
applyHookDefaults(route, options) ==
  IF ~options.encodeQueryValue.defined /\ ~options.serializeQuery.defined
    THEN [threw |-> TRUE, error |-> EncodingError, route |-> route]
    ELSE [threw |-> FALSE, error |-> "", route |-> withDefaultHooks(route, options)]

\* A table-level encoder: 'd' followed by the safe string.
DefaultEncoder ==
  Encoder([v \in QueryScalars |-> [threw |-> FALSE, s |-> << "d" >> \o toSafeString(v)]])

LayerRoutes ==
  {Route(<< "p" >>, <<>>, e, sq) :
     e \in {NoEncoder, QueryEncoder}, sq \in {NoSerializer, Serializer(<< "o", "w", "n" >>)}}

LayerSerializers(query) ==
  {NoSerializer, Serializer(<< "x", "=", "1" >>),
   Serializer(serializeQuery(Object(query), PlainRoute(<< "p" >>)))}

\* The queries of one entry.
LayerQueries == {<< Entry(<< "k" >>, v) >> : v \in QueryValues}

LayerCalls ==
  UNION {{[op |-> "applyRouteDefaults", route |-> r, query |-> q,
           options |-> [encodeQueryValue |-> e, serializeQuery |-> sq]] :
            r \in LayerRoutes, e \in {NoEncoder, DefaultEncoder},
            sq \in LayerSerializers(q)} : q \in LayerQueries}

LayerArgs == HrefArgs(NoObject, Object(call.query), Undefined, Undefined)

LayerDefaults ==
  /\ Ready("applyRouteDefaults")
  /\ pc' = "applied"
  /\ result' = applyHookDefaults(call.route, call.options)
  /\ UNCHANGED call

LayerHref ==
  /\ pc = "applied" /\ ~result.threw
  /\ pc' = "done"
  /\ result' = [threw |-> FALSE, error |-> "", route |-> result.route,
                href |-> buildHref(result.route, LayerArgs).href]
  /\ UNCHANGED call

InitLayers == Start(LayerCalls)

NextLayers == LayerDefaults \/ LayerHref

SpecLayers == InitLayers /\ [][NextLayers]_vars

\* C28 as stated: for a route with its own encodeQueryValue and without
\* serializeQuery, buildHref emits for the route applyRouteDefaults returns
\* the query string it emits for the original route, whichever defaults
\* (encoder, serializer or both) were supplied.
C28_RouteEncoderWins ==
  /\ Done("applyRouteDefaults")
  /\ call.route.encodeQueryValue.defined /\ ~call.route.serializeQuery.defined
  => result.href = buildHref(call.route, LayerArgs).href

(***************************************************************************)
(* SpecEcho: the href of a query { k: v } is built with buildHref for a    *)
(* route of the default pipeline whose getQuery reads value('k'), and then *)
(* resolved with findRoute against the table holding only that route.      *)
(***************************************************************************)
MaxValueLen == 3

EchoChars == {"a", "+", "%", "4", "1", " ", "&", "#"}

EchoValues == UNION {[1..n -> EchoChars] : n \in 1..MaxValueLen}

EchoRoute == Route(<< "p" >>, << [k |-> << "k" >>, multi |-> FALSE] >>, NoEncoder, NoSerializer)

EchoCalls ==
  {[op |-> "queryTrip", route |-> EchoRoute, v |-> v,
    args |-> HrefArgs(NoObject, Object(<< Entry(<< "k" >>, VStr(v)) >>), Undefined, Undefined)] :
     v \in EchoValues}

EchoBuild ==
  /\ Ready("queryTrip")
  /\ pc' = "built"
  /\ result' = buildHref(call.route, call.args)
  /\ UNCHANGED call

EchoResolve ==
  /\ pc = "built" /\ call.op = "queryTrip"
  /\ ~result.threw
  /\ Finish(findRoute([kind |-> "string", s |-> result.href], << call.route >>))

InitEcho == Start(EchoCalls)

NextEcho == EchoBuild \/ EchoResolve

SpecEcho == InitEcho /\ [][NextEcho]_vars

\* C29 as stated: for a route of the default pipeline whose getQuery reads
\* value('k') and a non-empty string v without leading or trailing white
\* space, findRoute on buildHref(route, { query: { k: v } }) yields a query
\* whose k is v.
C29_QueryRoundTrip ==
  /\ Done("queryTrip")
  /\ call.v[1] \notin WhiteSpace /\ call.v[Len(call.v)] \notin WhiteSpace
  => /\ ~result.threw /\ result.found
     /\ Get(result.query, << "k" >>) = VStr(call.v)

(***************************************************************************)
(* SpecOrder: encodeKeyValues on arrays, for a route without a custom      *)
(* encoder and for one whose encoder tells a number from a string.         *)
(***************************************************************************)
OrderElements ==
  {VNull, VStr(<<>>), VStr(<< "1" >>), VNum(<< "1" >>), VStr(<< "a" >>),
   VCustom(<< "a" >>, TRUE), VPlain(<< "{", "}" >>, TRUE)}

\* (v) => (typeof v === 'number' ? 'n' : 's') + String(v)
OrderEncoder ==
  Encoder([v \in OrderElements |->
             [threw |-> FALSE,
              s |-> (IF v.t = "number" THEN << "n" >> ELSE << "s" >>) \o toSafeString(v)]])

OrderRoutes == {Route(<< "p" >>, <<>>, e, NoSerializer) : e \in {NoEncoder, OrderEncoder}}

OrderCalls ==
  {[op |-> "encodeKeyValues", key |-> << "k" >>, value |-> VArr(items), route |-> r] :
     items \in SeqsUpTo(OrderElements, MaxElements), r \in OrderRoutes}

OrderValues ==
  Ready("encodeKeyValues") /\ Finish(encodeKeyValues(call.key, call.value, call.route))

InitOrder == Start(OrderCalls)

NextOrder == OrderValues

SpecOrder == InitOrder /\ [][NextOrder]_vars

\* The arrays holding the elements of items in every order.
Permuted(items) ==
  {[i \in 1..Len(items) |-> items[p[i]]] : p \in Permutations(1..Len(items))}

\* The arrays that repeat one element of items at their end.
Duplicated(items) == {Append(items, items[i]) : i \in 1..Len(items)}

\* C30 as stated: for any array-valued entry and any route, with or without
\* a custom encodeQueryValue, the pairs emitted for the entry are the same
\* for every permutation of the array's elements and are unchanged when an
\* element is duplicated.
C30_OrderAndDuplicatesIgnored ==
  Done("encodeKeyValues") /\ call.route \in OrderRoutes =>
    \A items \in Permuted(call.value.items) \cup Duplicated(call.value.items) :
      encodeKeyValues(call.key, VArr(items), call.route) = result

=============================================================================
